---------------------------- MODULE Spec2Model ----------------------------
(***************************************************************************)
(* A model of the pacman_tournament server: the game simulation of the     *)
(* `model` crate (Map, Grid, Bucket, Player, Mob, Model), and on top of it *)
(* the orchestrator and spectator pipeline of the `tournament` crate.      *)
(*                                                                         *)
(* Data representation.  A position is a pair <<x, y>>.  An Option<T> of   *)
(* an enum is the string "None" or the variant's name; Option<(u16,u16)>   *)
(* is NoPos or a position; Option<EntityIndex> is NoEntity or a record.    *)
(* A Bucket<T> is a record [inner, max_id] whose inner is a function from  *)
(* the occupied ids to the items.  The RefCell'd entities the simulator    *)
(* mutates through the buckets are updated functionally: every turn        *)
(* procedure maps a GameData to the GameData after it.                     *)
(***************************************************************************)
EXTENDS Integers, Sequences, FiniteSets, TLC

(***************************************************************************)
(* Bounds of the model (not program constants).                            *)
(***************************************************************************)
\* simulate_tick is not taken once the tick counter has reached this value
MaxTick == 3
\* simulate_tick is not taken in the fifty-tick simulation after this many
MaxFoodTick == 50
\* the tick interval does not fire in the fleet after this many ticks
MaxFleetTick == 2
\* nor, where the competitor::Manager falls behind, after this many
MaxStaleTick == 3
\* the events the channel into the GlobalManager holds
MaxRx == 1
\* the events the channel into the competitor::Manager holds in the fleet
FleetBacklog == 2
\* and where the competitor::Manager falls behind
MaxBacklog == 7
\* the streams the unauthenticated bucket holds
MaxConn == 2
\* The fleet that keeps the history of its connections: its users and the
\* ticks it runs for
SessionUsers == 1
MaxSessionTick == 3
\* the ticks of the fleet whose clients sign in with any credentials
MaxGateTick == 1
\* the users and the ticks of the fleet whose spectators connect at any time
WatchUsers == 1
MaxWatchTick == 2
\* The MessageStream on its own: the bytes its buffer holds (1024 in the
\* source) and the bytes its peer sends
BufSize == 3
MaxWire == 6
\* the users of the users table in the fleet
FleetUsers == 2
\* the ticks of the fleet with one user on the map with a free cell
MaxChaseTick == 3
\* the users of that fleet
ChaseUsers == 1
\* the ticks of the fleet in which more users sign in than a game takes
MaxCrowdTick == 3
\* the largest id insert and remove are called with on the Bucket on its own,
\* and the largest max_id at which add is still called
MaxBucketId == 3
\* the users and the ticks of the fleet whose clients disconnect while the
\* events of a tick are under way
RaceUsers == 2
MaxRaceTick == 2
\* the ticks of the fleet in which the lookup of a user can fail
MaxLookupTick == 1
\* the ticks of the fleet whose score updates are kept
MaxScoreTick == 3
\* the ticks of the fleet in which a spectator falls behind
MaxLagTick == 7
\* the leaderboard updates broadcast in it
MaxLeaderboard == 1
\* the ticks of the games whose tick messages are made: of the game without
\* a mob, and of the game with one
MaxViewTick == 3
MaxViewMobTick == 2
\* Ticks of the game in which two players meet head-on
MaxDuelTick == 6

(***************************************************************************)
(* Program constants.                                                      *)
(***************************************************************************)
FOOD_RESPAWN_PERIOD == 50
FRUIT_SCORE == 10
POWERPILL_SCORE == 100
KILL_SCORE == 150
SPAWN_HEALTH == 1
SPAWN_INVULNERABLE_TURNS == 2
TARGET_TIME == 50
STUCK_LIMIT == 5
ENERGY_START == 9
CLOSE_SCORE == 3
MAX_MOBS == 8
MAX_PLAYERS == 8

NoPos == <<>>
NoEntity == [entity_type |-> "None", index |-> 0]

(***************************************************************************)
(* Direction (model/src/entity.rs)                                         *)
(***************************************************************************)
Direction == {"North", "East", "South", "West"}

clockwise(d) ==
    CASE d = "North" -> "East"
      [] d = "East"  -> "South"
      [] d = "South" -> "West"
      [] d = "West"  -> "North"

anti_clockwise(d) ==
    CASE d = "North" -> "West"
      [] d = "East"  -> "North"
      [] d = "South" -> "East"
      [] d = "West"  -> "South"

\* Direction::reverse is used by player.rs and mob.rs; its body is not in src/
reverse(d) ==
    CASE d = "North" -> "South"
      [] d = "East"  -> "West"
      [] d = "South" -> "North"
      [] d = "West"  -> "East"

Action == {"Forward", "Stay", "TurnLeft", "TurnRight", "Eat"}

(***************************************************************************)
(* EntityIndex (model/src/entity.rs)                                       *)
(***************************************************************************)
new_player(index) == [entity_type |-> "Player", index |-> index]
new_mob(index) == [entity_type |-> "Mob", index |-> index]

(***************************************************************************)
(* Bucket (model/src/bucket.rs)                                            *)
(***************************************************************************)
Bucket_new == [inner |-> <<>>, max_id |-> 0]

Bucket_contains(b, id) == id \in DOMAIN b.inner

Bucket_len(b) == Cardinality(DOMAIN b.inner)

\* A variant of insert that leaves max_id as it is
Bucket_insert_keeping_max(b, id, item) ==
    [inner |-> [k \in (DOMAIN b.inner) \cup {id} |->
                    IF k = id THEN item ELSE b.inner[k]],
     max_id |-> b.max_id]

Bucket_insert(b, id, item) ==
    [inner |-> [k \in (DOMAIN b.inner) \cup {id} |->
                    IF k = id THEN item ELSE b.inner[k]],
     max_id |-> IF id >= b.max_id THEN id + 1 ELSE b.max_id]

\* A variant of minimum_available_id that always issues a new maximum
minimum_available_id_fresh(b) == b.max_id

\* the unreachable!() branch is the value -1
minimum_available_id(b) ==
    IF b.max_id = Bucket_len(b)
    THEN b.max_id
    ELSE LET free == {i \in 0..(b.max_id - 1) : ~Bucket_contains(b, i)}
         IN  IF free = {} THEN -1
             ELSE CHOOSE i \in free : \A j \in free : i <= j

Bucket_add(b, item) == Bucket_insert(b, minimum_available_id(b), item)

Bucket_remove(b, id) ==
    [inner |-> [k \in (DOMAIN b.inner) \ {id} |-> b.inner[k]],
     max_id |-> b.max_id]

\* Bucket::get_mut followed by a write through the reference
Bucket_set(b, id, item) ==
    [b EXCEPT !.inner = [k \in DOMAIN b.inner |->
                            IF k = id THEN item ELSE b.inner[k]]]

(***************************************************************************)
(* Map and Grid (model/src/map.rs, model/src/grid.rs)                      *)
(***************************************************************************)
Positions(map) == (0..(map.width - 1)) \X (0..(map.height - 1))

\* Grid's inner vector is column-major: index x * height + y
GridOrder(map) ==
    [i \in 1..(map.width * map.height) |->
        <<(i - 1) \div map.height, (i - 1) % map.height>>]

\* One character of the map text: its food and base tile
MapChar(c) ==
    CASE c = "X" -> [food |-> "None", tile |-> "Wall"]
      [] c = " " -> [food |-> "None", tile |-> "Land"]
      [] c = "." -> [food |-> "Fruit", tile |-> "Land"]
      [] c = "|" -> [food |-> "PowerPill", tile |-> "Land"]
      [] c = "P" -> [food |-> "None", tile |-> "Land"]
      [] c = "M" -> [food |-> "None", tile |-> "Land"]

\* The positions holding character c, in the order the parser meets them
\* (row by row, left to right)
RECURSIVE SpawnPoints(_, _, _, _)
SpawnPoints(rows, c, x, y) ==
    IF y >= Len(rows) THEN <<>>
    ELSE IF x >= Len(rows[1]) THEN SpawnPoints(rows, c, 0, y + 1)
    ELSE (IF rows[y + 1][x + 1] = c THEN <<(<<x, y>>)>> ELSE <<>>)
         \o SpawnPoints(rows, c, x + 1, y)

\* rows is the text: a sequence of lines, each a sequence of characters
new_from_string(rows) ==
    LET width == Len(rows[1])
        height == Len(rows)
        cells == (0..(width - 1)) \X (0..(height - 1))
        player_spawn_locations == SpawnPoints(rows, "P", 0, 0)
        mob_spawn_locations == SpawnPoints(rows, "M", 0, 0)
    IN  [width |-> width,
         height |-> height,
         base_tile |-> [p \in cells |-> MapChar(rows[p[2] + 1][p[1] + 1]).tile],
         default_food_locations |->
             [p \in cells |-> MapChar(rows[p[2] + 1][p[1] + 1]).food],
         player_spawn |->
             IF Len(player_spawn_locations) > 0
             THEN [kind |-> "Defined", points |-> player_spawn_locations]
             ELSE [kind |-> "Random", points |-> <<>>],
         mob_spawn |->
             IF Len(mob_spawn_locations) > 0
             THEN [kind |-> "Defined", points |-> mob_spawn_locations]
             ELSE [kind |-> "Random", points |-> <<>>]]

\* A variant of base_tile under which every tile reads as Land
base_tile_all_land(map, pos) == "Land"

base_tile(map, pos) == map.base_tile[pos]

calc_foward(map, pos, direction) ==
    LET x == pos[1]
        y == pos[2]
    IN  CASE direction = "North" -> IF y = 0 THEN NoPos ELSE <<x, y - 1>>
          [] direction = "East"  -> IF x + 1 = map.width THEN NoPos ELSE <<x + 1, y>>
          [] direction = "South" -> IF y + 1 = map.height THEN NoPos ELSE <<x, y + 1>>
          [] direction = "West"  -> IF x = 0 THEN NoPos ELSE <<x - 1, y>>

\* Map::calc_direction is called by mob.rs; its body is not in src/.  The
\* callers pass a cell and a four-connected neighbour of it.
calc_direction(src, dst) ==
    CASE dst[2] < src[2] -> "North"
      [] dst[1] > src[1] -> "East"
      [] dst[2] > src[2] -> "South"
      [] OTHER           -> "West"

\* Grid::swap
Grid_swap(grid, a, b) == [grid EXCEPT ![a] = grid[b], ![b] = grid[a]]


(***************************************************************************)
(* Player (model/src/entity/player.rs)                                     *)
(*                                                                         *)
(* The turn procedures below take and return the working GameData of a     *)
(* tick: the fields map, entities, food, players, mobs of GameData, and    *)
(* two history fields no code reads: `eaten`, the cells whose food a       *)
(* player consumed so far in the tick, and `strikes`, one record for each  *)
(* call of attack_square so far in the tick.                               *)
(***************************************************************************)
Player_new(pos, direction, health, invulnerable_turns, username, next_action) ==
    [pos |-> pos,
     direction |-> direction,
     health |-> health,
     invulnerable_turns |-> invulnerable_turns,
     has_powerpill |-> FALSE,
     score |-> 0,
     username |-> username,
     next_action |-> next_action]

\* saturating_sub on u8
saturating_sub(a, b) == IF a >= b THEN a - b ELSE 0

Player_tick(p) ==
    [p EXCEPT !.invulnerable_turns = saturating_sub(p.invulnerable_turns, 1),
              !.score = p.score + 1]

Player_eat(p, food_item) ==
    IF food_item = "Fruit"
    THEN [p EXCEPT !.score = p.score + FRUIT_SCORE]
    ELSE [p EXCEPT !.score = p.score + POWERPILL_SCORE, !.has_powerpill = TRUE]

Player_died(p) == p.health = 0

\* A variant of is_invulnerable for which no player is invulnerable
Player_is_invulnerable_never(p) == FALSE

Player_is_invulnerable(p) == p.invulnerable_turns > 0

\* A variant of deal_damage that takes all the health
Player_deal_damage_all(p, damage) == [p EXCEPT !.health = 0]

Player_deal_damage(p, damage) == [p EXCEPT !.health = saturating_sub(p.health, damage)]

\* A variant of kill that spares the player
Player_kill_spared(p) == p

Player_kill(p) == [p EXCEPT !.health = 0]

SetPlayer(d, id, p) == [d EXCEPT !.players = Bucket_set(d.players, id, p)]

SetMob(d, id, m) == [d EXCEPT !.mobs = Bucket_set(d.mobs, id, m)]

\* A variant of clear_food that leaves the food where it is
clear_food_kept(food, dest) == food

\* food[dest] = None
clear_food(food, dest) == [food EXCEPT ![dest] = "None"]

\* The tail of attack_square: eat the food on dest, then move src -> dest
attack_square_move(d, id, src, dest) ==
    LET self == d.players.inner[id]
        food_item == d.food[dest]
        fed == IF food_item # "None" THEN Player_eat(self, food_item) ELSE self
    IN  [d EXCEPT
            !.food = IF food_item # "None"
                     THEN clear_food(d.food, dest) ELSE d.food,
            !.eaten = IF food_item # "None" THEN d.eaten \cup {dest} ELSE d.eaten,
            !.entities = Grid_swap(d.entities, dest, src),
            !.players = Bucket_set(d.players, id, [fed EXCEPT !.pos = dest])]

attack_square(d, id, direction, using_powerpill) ==
    LET self == d.players.inner[id]
        src == self.pos
        dest == calc_foward(d.map, src, direction)
    IN  IF dest = NoPos THEN d
        ELSE IF base_tile(d.map, dest) # "Land" THEN d
        ELSE LET entity_index == d.entities[dest] IN
             CASE entity_index.entity_type = "Player" ->
                    LET enemy == d.players.inner[entity_index.index] IN
                    IF reverse(enemy.direction) = direction
                    THEN \* head on: both die, both cells are cleared
                         [SetPlayer(SetPlayer(d, entity_index.index, Player_kill(enemy)),
                                    id, Player_kill(self))
                            EXCEPT !.entities =
                                [d.entities EXCEPT ![src] = NoEntity, ![dest] = NoEntity]]
                    ELSE IF ~Player_is_invulnerable(enemy)
                    THEN LET hurt == Player_deal_damage(enemy, 1)
                             d1 == SetPlayer(d, entity_index.index, hurt)
                         IN  IF ~Player_died(hurt) THEN d1
                             ELSE attack_square_move(
                                    [SetPlayer(d1, id,
                                        [self EXCEPT !.score = self.score + KILL_SCORE])
                                       EXCEPT !.entities =
                                           [d.entities EXCEPT ![dest] = NoEntity]],
                                    id, src, dest)
                    ELSE d
               [] entity_index.entity_type = "Mob" ->
                    IF using_powerpill
                    THEN LET enemy == d.mobs.inner[entity_index.index] IN
                         [SetPlayer(SetMob(d, entity_index.index,
                                           [enemy EXCEPT !.is_dead = TRUE]),
                                    id, [self EXCEPT !.score = self.score + KILL_SCORE])
                            EXCEPT !.entities = [d.entities EXCEPT ![dest] = NoEntity]]
                    ELSE [SetPlayer(d, id, Player_kill(self))
                            EXCEPT !.entities = [d.entities EXCEPT ![src] = NoEntity]]
               [] OTHER -> attack_square_move(d, id, src, dest)

\* What one call of attack_square did, read off the states before and after
\* it (history only): who struck where and what stood there, and the health
\* and score of the attacker and of a target player, and the two cells,
\* afterwards
StrikeRecord(before, after, id, direction, using_powerpill) ==
    LET self == before.players.inner[id]
        dest == calc_foward(before.map, self.pos, direction)
        on_land == dest # NoPos /\ base_tile(before.map, dest) = "Land"
        target == IF on_land THEN before.entities[dest] ELSE NoEntity
        enemy == IF target.entity_type = "Player"
                 THEN before.players.inner[target.index] ELSE self
        enemy_after == IF target.entity_type = "Player"
                       THEN after.players.inner[target.index] ELSE self
    IN  [attacker |-> id,
         direction |-> direction,
         using_powerpill |-> using_powerpill,
         src |-> self.pos,
         dest |-> dest,
         on_land |-> on_land,
         target |-> target,
         head_on |-> target.entity_type = "Player" /\ reverse(enemy.direction) = direction,
         target_invulnerable |-> target.entity_type = "Player"
                                    /\ Player_is_invulnerable(enemy),
         health_before |-> self.health,
         health_after |-> after.players.inner[id].health,
         score_before |-> self.score,
         score_after |-> after.players.inner[id].score,
         pos_after |-> after.players.inner[id].pos,
         target_health_before |-> enemy.health,
         target_health_after |-> enemy_after.health,
         players_changed |-> after.players # before.players,
         src_after |-> after.entities[self.pos],
         dest_after |-> IF dest # NoPos THEN after.entities[dest] ELSE NoEntity,
         food_at_dest |-> IF dest # NoPos THEN before.food[dest] ELSE "None",
         food_at_dest_after |-> IF dest # NoPos THEN after.food[dest] ELSE "None",
         entities_changed |-> after.entities # before.entities,
         food_changed |-> after.food # before.food,
         target_dead_after |-> target.entity_type = "Mob"
                                /\ after.mobs.inner[target.index].is_dead,
         mobs_changed |-> after.mobs # before.mobs]

\* attack_square, and its record appended to the tick's history
strike(d, id, direction, using_powerpill) ==
    LET after == attack_square(d, id, direction, using_powerpill)
    IN  [after EXCEPT !.strikes =
            Append(d.strikes, StrikeRecord(d, after, id, direction, using_powerpill))]

\* A variant of take_action that leaves the action in place
take_action_kept(p) == p

\* std::mem::swap(&mut action, &mut self.next_action): the player afterwards
take_action(p) == [p EXCEPT !.next_action = "None"]

Player_process_turn(d, id) ==
    LET ticked == Player_tick(d.players.inner[id])
        action == IF ticked.next_action = "None" THEN "Stay" ELSE ticked.next_action
        self == take_action(ticked)
        direction == self.direction
        d0 == SetPlayer(d, id, self)
    IN  CASE action = "Stay" -> d0
          [] action = "Forward" -> strike(d0, id, direction, FALSE)
          [] action = "TurnRight" ->
                SetPlayer(d0, id, [self EXCEPT !.direction = clockwise(direction)])
          [] action = "TurnLeft" ->
                SetPlayer(d0, id, [self EXCEPT !.direction = anti_clockwise(direction)])
          [] action = "Eat" ->
                IF self.has_powerpill
                THEN LET d1 == SetPlayer(d0, id, [self EXCEPT !.has_powerpill = FALSE])
                     IN  strike(strike(d1, id, direction, TRUE), id, direction, TRUE)
                ELSE d0

(***************************************************************************)
(* Mob (model/src/entity/mob.rs)                                           *)
(***************************************************************************)
Mob_new(pos, direction, is_dead) ==
    [pos |-> pos,
     direction |-> direction,
     is_dead |-> is_dead,
     target |-> pos,
     target_time |-> 0,
     stuck |-> 0,
     path |-> <<>>]

can_advance(pos, direction, map, entities) ==
    LET new == calc_foward(map, pos, direction)
    IN  IF new = NoPos THEN NoPos
        ELSE IF entities[new].entity_type = "Mob" THEN NoPos
        ELSE IF base_tile(map, new) # "Land" THEN NoPos
        ELSE new

Abs(n) == IF n < 0 THEN -n ELSE n

Manhattan(a, b) == Abs(a[1] - b[1]) + Abs(a[2] - b[2])

DirectionOrder == <<"North", "East", "South", "West">>

\* The loop over the four directions in `propogate`: st is
\* [queue, paths, unblocked], paths a function from the reached cells to
\* PathNode records [parent, unblocked, energy]
RECURSIVE propogate_directions(_, _, _, _, _, _)
propogate_directions(map, pos, energy, excluded_direction, i, st) ==
    IF i > Len(DirectionOrder) THEN st
    ELSE LET direction == DirectionOrder[i]
             new_pos == calc_foward(map, pos, direction)
             next ==
                IF energy = ENERGY_START /\ direction = excluded_direction THEN st
                ELSE IF new_pos = NoPos THEN st
                ELSE IF base_tile(map, new_pos) # "Land" THEN st
                ELSE IF new_pos \in DOMAIN st.paths THEN st
                ELSE IF energy > 0
                THEN [queue |-> Append(st.queue, new_pos),
                      paths |-> [q \in (DOMAIN st.paths) \cup {new_pos} |->
                                    IF q = new_pos
                                    THEN [parent |-> pos, unblocked |-> 3,
                                          energy |-> energy - 1]
                                    ELSE st.paths[q]],
                      unblocked |-> st.unblocked + 1]
                ELSE [st EXCEPT !.unblocked = st.unblocked + 1]
         IN  propogate_directions(map, pos, energy, excluded_direction, i + 1, next)

\* A fully blocked node takes one from its parent's count, and so on upwards
RECURSIVE unblock_parents(_, _)
unblock_parents(paths, parent) ==
    IF parent = NoPos THEN paths
    ELSE LET n == paths[parent].unblocked - 1
             updated == [paths EXCEPT ![parent].unblocked = n]
         IN  IF n = 0 THEN unblock_parents(updated, paths[parent].parent)
             ELSE updated

propogate(map, excluded_direction, pos, queue, paths) ==
    LET node == paths[pos]
        st == propogate_directions(map, pos, node.energy, excluded_direction, 1,
                    [queue |-> queue, paths |-> paths, unblocked |-> 0])
        counted == [st.paths EXCEPT ![pos].unblocked = st.unblocked]
    IN  [queue |-> st.queue,
         paths |-> IF st.unblocked = 0
                   THEN unblock_parents(counted, node.parent)
                   ELSE counted]

\* while let Some(pos) = unsearched_points.pop_front()
RECURSIVE search(_, _, _, _)
search(map, excluded_direction, queue, paths) ==
    IF queue = <<>> THEN paths
    ELSE LET st == propogate(map, excluded_direction, Head(queue), Tail(queue), paths)
         IN  search(map, excluded_direction, st.queue, st.paths)

\* The result is in reverse order: its last element is the next step
RECURSIVE produce_path_to_point(_, _, _)
produce_path_to_point(paths, start, point) ==
    IF point = start THEN <<>>
    ELSE <<point>> \o produce_path_to_point(paths, start, paths[point].parent)

\* The set of paths find_path_to_target may return.  The choice of the best
\* node iterates a HashMap: it stops at the first node closer than
\* CLOSE_SCORE to the target, whichever the map yields first, and otherwise
\* keeps the first of the unblocked leaves of least score.
find_path_to_target(mob, map, excluded_direction) ==
    LET paths == search(map, excluded_direction, <<mob.pos>>,
                        [q \in {mob.pos} |->
                            [parent |-> NoPos, unblocked |-> 4, energy |-> ENERGY_START]])
        nodes == DOMAIN paths
        close == {q \in nodes : Manhattan(q, mob.target) < CLOSE_SCORE /\ q # mob.pos}
        leaves == {q \in nodes : paths[q].unblocked > 0 /\ paths[q].energy = 1}
        best == IF close # {} THEN close
                ELSE IF leaves # {}
                THEN {q \in leaves :
                        \A r \in leaves : Manhattan(q, mob.target) <= Manhattan(r, mob.target)}
                ELSE {mob.pos}
    IN  {produce_path_to_point(paths, mob.pos, q) : q \in best}

\* [advanced, data]
try_advance(d, id) ==
    LET self == d.mobs.inner[id]
        new == can_advance(self.pos, self.direction, d.map, d.entities)
        moved(e) == [SetMob(e, id, [self EXCEPT !.pos = new])
                        EXCEPT !.entities = Grid_swap(e.entities, self.pos, new)]
    IN  IF new = NoPos THEN [advanced |-> FALSE, data |-> d]
        ELSE IF d.entities[new] # NoEntity
        THEN LET enemy == d.players.inner[d.entities[new].index] IN
             IF Player_is_invulnerable(enemy) THEN [advanced |-> FALSE, data |-> d]
             ELSE LET hurt == Player_deal_damage(enemy, 1)
                      d1 == SetPlayer(d, d.entities[new].index, hurt)
                  IN  IF ~Player_died(hurt) THEN [advanced |-> FALSE, data |-> d1]
                      ELSE [advanced |-> TRUE,
                            data |-> moved([d1 EXCEPT !.entities =
                                                [d.entities EXCEPT ![new] = NoEntity]])]
        ELSE [advanced |-> TRUE, data |-> moved(d)]

\* The set of outcomes of process_path
process_path(d, id) ==
    LET self == d.mobs.inner[id] IN
    IF self.path # <<>>
    THEN LET next_point == self.path[Len(self.path)]
             direction == calc_direction(self.pos, next_point)
         IN  IF direction = self.direction
             THEN LET r == try_advance(d, id)
                      after == r.data.mobs.inner[id]
                  IN  IF r.advanced
                      THEN {SetMob(r.data, id,
                                [after EXCEPT !.stuck = 0,
                                              !.path = SubSeq(after.path, 1,
                                                              Len(after.path) - 1)])}
                      ELSE {SetMob(r.data, id, [after EXCEPT !.stuck = after.stuck + 1])}
             ELSE IF direction = reverse(self.direction)
             THEN {SetMob(d, id, [self EXCEPT !.direction = clockwise(self.direction)])}
             ELSE {SetMob(d, id, [self EXCEPT !.direction = direction])}
    ELSE LET new_pos == calc_foward(d.map, self.pos, self.direction)
             excluded_direction ==
                IF new_pos # NoPos /\ d.entities[new_pos].entity_type = "Mob"
                THEN self.direction ELSE "None"
         IN  {SetMob(d, id, [self EXCEPT !.path = path]) :
                path \in find_path_to_target(self, d.map, excluded_direction)}

\* The set of outcomes of a mob's turn: the new target is drawn at random
Mob_process_turn(d, id) ==
    LET self == d.mobs.inner[id]
        retarget == self.target_time = 0 \/ self.pos = self.target
                        \/ self.stuck > STUCK_LIMIT
        starts == IF retarget
                  THEN {[self EXCEPT !.target = t, !.target_time = TARGET_TIME - 1,
                                     !.path = <<>>, !.stuck = 0] :
                            t \in Positions(d.map)}
                  ELSE {[self EXCEPT !.target_time = self.target_time - 1]}
    IN  UNION {process_path(SetMob(d, id, m), id) : m \in starts}

(***************************************************************************)
(* Model (model/src/lib.rs)                                                *)
(***************************************************************************)
Model_new(map, desired_mob_count) ==
    [data |-> [map |-> map,
               entities |-> [p \in Positions(map) |-> NoEntity],
               food |-> map.default_food_locations,
               players |-> Bucket_new,
               mobs |-> Bucket_new],
     spawning_players |-> <<>>,
     desired_mob_count |-> desired_mob_count,
     tick |-> 0,
     waiting_players |-> 0]

add_entity(d, pos, index) == [d EXCEPT !.entities = [d.entities EXCEPT ![pos] = index]]

\* The candidates spawn_location chooses among; the empty set is None
spawn_location(d, spawn) ==
    LET free(p) == base_tile(d.map, p) = "Land" /\ d.entities[p] = NoEntity
    IN  IF spawn.kind = "Defined"
        THEN {spawn.points[i] : i \in {j \in 1..Len(spawn.points) : free(spawn.points[j])}}
        ELSE {p \in Positions(d.map) : free(p)}

\* The player spawned at the chosen location: [id, data]
spawn_player_at(d, pos, username) ==
    LET id == minimum_available_id(d.players)
        players == Bucket_add(d.players,
                        Player_new(pos, "North", SPAWN_HEALTH, SPAWN_INVULNERABLE_TURNS,
                                   username, "None"))
    IN  [id |-> id, data |-> add_entity([d EXCEPT !.players = players], pos, new_player(id))]

\* The outcomes of spawn_player: the empty set is None
spawn_player(d, username) ==
    {spawn_player_at(d, pos, username) : pos \in spawn_location(d, d.map.player_spawn)}

\* The outcomes of spawn_mob: the empty set is `false`
spawn_mob(d) ==
    {add_entity([d EXCEPT !.mobs = Bucket_add(d.mobs, Mob_new(pos, "North", FALSE))],
                pos, new_mob(minimum_available_id(d.mobs))) :
        pos \in spawn_location(d, d.map.mob_spawn)}

\* A variant of respawn_food that restores nothing
respawn_food_skipped(d) == d

respawn_food(d) == [d EXCEPT !.food = d.map.default_food_locations]

\* The Some(_) cells of the entity grid in the order of its inner vector
RECURSIVE entity_queue(_, _, _)
entity_queue(entities, order, i) ==
    IF i > Len(order) THEN <<>>
    ELSE (IF entities[order[i]] # NoEntity THEN <<entities[order[i]]>> ELSE <<>>)
         \o entity_queue(entities, order, i + 1)

\* One entity's turn in the queue loop: the set of outcomes
entity_turn(d, entity_index) ==
    IF entity_index.entity_type = "Mob"
    THEN IF Bucket_contains(d.mobs, entity_index.index)
            /\ ~d.mobs.inner[entity_index.index].is_dead
         THEN Mob_process_turn(d, entity_index.index)
         ELSE {d}
    ELSE IF Bucket_contains(d.players, entity_index.index)
            /\ ~Player_died(d.players.inner[entity_index.index])
         THEN {Player_process_turn(d, entity_index.index)}
         ELSE {d}

\* for entity_index in entity_queue: from a set of working states to the set
\* of working states after the remaining turns
RECURSIVE process_queue(_, _)
process_queue(ds, queue) ==
    IF queue = <<>> THEN ds
    ELSE process_queue(UNION {entity_turn(d, Head(queue)) : d \in ds}, Tail(queue))

\* A variant of sweep_players that stops after the first dead player
RECURSIVE sweep_players_first(_, _)
sweep_players_first(st, player_id) ==
    IF player_id >= st.data.players.max_id THEN st
    ELSE IF Bucket_contains(st.data.players, player_id)
            /\ Player_died(st.data.players.inner[player_id])
    THEN [data |-> [st.data EXCEPT !.players = Bucket_remove(st.data.players, player_id)],
          events |-> Append(st.events,
                        [type |-> "PlayerDied", player_id |-> player_id,
                         final_score |-> st.data.players.inner[player_id].score])]
    ELSE sweep_players_first(st, player_id + 1)

\* for player_id in 0..players.max_id(): st is [data, events]
RECURSIVE sweep_players(_, _)
sweep_players(st, player_id) ==
    IF player_id >= st.data.players.max_id THEN st
    ELSE IF Bucket_contains(st.data.players, player_id)
            /\ Player_died(st.data.players.inner[player_id])
    THEN sweep_players(
            [data |-> [st.data EXCEPT !.players = Bucket_remove(st.data.players, player_id)],
             events |-> Append(st.events,
                            [type |-> "PlayerDied", player_id |-> player_id,
                             final_score |-> st.data.players.inner[player_id].score])],
            player_id + 1)
    ELSE sweep_players(st, player_id + 1)

RECURSIVE sweep_mobs(_, _)
sweep_mobs(d, mob_id) ==
    IF mob_id >= d.mobs.max_id THEN d
    ELSE IF Bucket_contains(d.mobs, mob_id) /\ d.mobs.inner[mob_id].is_dead
    THEN sweep_mobs([d EXCEPT !.mobs = Bucket_remove(d.mobs, mob_id)], mob_id + 1)
    ELSE sweep_mobs(d, mob_id + 1)

\* while let Some(..) = spawning_players.pop_front(): st is
\* [data, events, spawning_players]; the set of outcomes
RECURSIVE spawn_queued_players(_)
spawn_queued_players(st) ==
    IF st.spawning_players = <<>> THEN {st}
    ELSE LET temporary_id == Head(st.spawning_players)[1]
             username == Head(st.spawning_players)[2]
             spawned == spawn_player(st.data, username)
         IN  IF spawned = {} THEN {st}
             ELSE UNION {spawn_queued_players(
                            [data |-> r.data,
                             events |-> Append(st.events,
                                            [type |-> "PlayerSpawned",
                                             temporary_id |-> temporary_id, id |-> r.id]),
                             spawning_players |-> Tail(st.spawning_players)]) :
                         r \in spawned}

\* A variant of spawn_missing_mobs that spawns no mob
spawn_missing_mobs_none(d, desired_mob_count) == {d}

\* while self.mobs().len() < self.desired_mob_count: the set of outcomes
RECURSIVE spawn_missing_mobs(_, _)
spawn_missing_mobs(d, desired_mob_count) ==
    IF Bucket_len(d.mobs) >= desired_mob_count THEN {d}
    ELSE LET spawned == spawn_mob(d)
         IN  IF spawned = {} THEN {d}
             ELSE UNION {spawn_missing_mobs(e, desired_mob_count) : e \in spawned}

GameDataOf(w) ==
    [map |-> w.map, entities |-> w.entities, food |-> w.food,
     players |-> w.players, mobs |-> w.mobs]

WorkingData(d) ==
    [map |-> d.map, entities |-> d.entities, food |-> d.food,
     players |-> d.players, mobs |-> d.mobs, eaten |-> {}, strikes |-> <<>>]

\* The set of outcomes [model, events, eaten, strikes] of simulate_tick:
\* events is the sequence handed to the callback (the game_data of its
\* ProcessTick is the clone of the outcome's model.data and is not repeated
\* in the record); eaten and strikes are the tick's history
simulate_tick(m) ==
    LET tick == m.tick + 1
        fed == IF tick % FOOD_RESPAWN_PERIOD = 0 THEN respawn_food(m.data) ELSE m.data
        queue == entity_queue(fed.entities, GridOrder(fed.map), 1)
        turned == process_queue({WorkingData(fed)}, queue)
        finish(w) ==
            LET swept == sweep_players([data |-> w, events |-> <<>>], 0)
                cleaned == [swept EXCEPT !.data = sweep_mobs(swept.data, 0)]
                joined == spawn_queued_players(
                            [data |-> cleaned.data, events |-> cleaned.events,
                             spawning_players |-> m.spawning_players])
            IN  UNION {{[model |-> [m EXCEPT !.data = GameDataOf(e),
                                             !.spawning_players = st.spawning_players,
                                             !.tick = tick,
                                             !.waiting_players = Bucket_len(e.players)],
                         events |-> Append(st.events,
                                        [type |-> "ProcessTick", tick |-> tick]),
                         eaten |-> e.eaten,
                         strikes |-> e.strikes] :
                            e \in spawn_missing_mobs(st.data, m.desired_mob_count)} :
                       st \in joined}
    IN  UNION {finish(w) : w \in turned}

add_client(m, temporary_id, username) ==
    [m EXCEPT !.spawning_players = Append(m.spawning_players, <<temporary_id, username>>)]

\* A variant of player_action that takes only the first action of a tick
player_action_first_come(m, id, action, tick) ==
    IF m.tick # tick \/ m.waiting_players # Bucket_len(m.data.players) THEN m
    ELSE IF Bucket_contains(m.data.players, id)
    THEN LET player == m.data.players.inner[id] IN
         [m EXCEPT !.waiting_players = m.waiting_players - 1,
                   !.data = SetPlayer(m.data, id, [player EXCEPT !.next_action = action])]
    ELSE m

\* A variant of player_action that takes an action whatever its tick number
player_action_any_tick(m, id, action, tick) ==
    IF Bucket_contains(m.data.players, id)
    THEN LET player == m.data.players.inner[id] IN
         [m EXCEPT !.waiting_players =
                        IF player.next_action # "None" THEN m.waiting_players
                        ELSE m.waiting_players - 1,
                   !.data = SetPlayer(m.data, id, [player EXCEPT !.next_action = action])]
    ELSE m

\* The assert_ne!(self.waiting_players, 0) fails where the result has
\* waiting_players = -1
player_action(m, id, action, tick) ==
    IF m.tick # tick THEN m
    ELSE IF Bucket_contains(m.data.players, id)
    THEN LET player == m.data.players.inner[id] IN
         [m EXCEPT !.waiting_players =
                        IF player.next_action # "None" THEN m.waiting_players
                        ELSE m.waiting_players - 1,
                   !.data = SetPlayer(m.data, id, [player EXCEPT !.next_action = action])]
    ELSE m

\* A variant of remove_client that leaves the player's grid cell as it is
remove_client_keeping_cell(m, id) ==
    [m EXCEPT !.data = [m.data EXCEPT !.players = Bucket_remove(m.data.players, id)]]

\* Panics unless id is a player: callers check Bucket_contains first
remove_client(m, id) ==
    [m EXCEPT !.data =
        [m.data EXCEPT !.players = Bucket_remove(m.data.players, id),
                       !.entities = [m.data.entities EXCEPT
                                        ![m.data.players.inner[id].pos] = NoEntity]]]

(***************************************************************************)
(* LocalManager (tournament/src/game.rs)                                   *)
(***************************************************************************)
\* HashMap::new(), insert and remove
EmptyMap == <<>>
MapInsert(f, k, v) == [x \in (DOMAIN f) \cup {k} |-> IF x = k THEN v ELSE f[x]]
\* A variant of remove that leaves the key in the map
MapRemove_kept(f, k) == f

MapRemove(f, k) == [x \in (DOMAIN f) \ {k} |-> f[x]]

\* The orders in which an iterator over a HashMap can yield these keys
RECURSIVE Orders(_)
Orders(S) ==
    IF S = {} THEN {<<>>}
    ELSE UNION {{<<k>> \o rest : rest \in Orders(S \ {k})} : k \in S}

LocalManager_new(map, game_id) ==
    [model |-> Model_new(map, MAX_MOBS), id_map |-> EmptyMap, game_id |-> game_id]

\* A variant of total_player_count that counts nobody
total_player_count_none(game) == 0

total_player_count(game) ==
    Bucket_len(game.model.data.players) + Len(game.model.spawning_players)

\* [ok, game]: the returned bool and the game afterwards
try_spawn_player(game, temporary_id, username) ==
    IF total_player_count(game) < MAX_PLAYERS
    THEN [ok |-> TRUE,
          game |-> [game EXCEPT !.model = add_client(game.model, temporary_id, username)]]
    ELSE [ok |-> FALSE, game |-> game]

\* Model::remove_client unwraps the removed grid cell's player: it panics
\* when the bucket has no such player
remove_client_panics(game, player_id) ==
    ~Bucket_contains(game.model.data.players, player_id)

LocalManager_remove_client(game, player_id) ==
    [game EXCEPT !.id_map = MapRemove(game.id_map, player_id),
                 !.model = remove_client(game.model, player_id)]

play_action(game, player_id, action, tick) ==
    [game EXCEPT !.model = player_action(game.model, player_id, action, tick)]

should_close_never(game) == FALSE

should_close(game) == total_player_count(game) = 0

\* The closure of LocalManager::tick over the events of one simulate_tick:
\* st is [id_map, events, panicked]; a PlayerDied is passed on with the
\* user id, a ProcessTick with the clone of the data
RECURSIVE tick_callback(_, _, _, _)
tick_callback(st, events, i, game_data) ==
    IF i > Len(events) \/ st.panicked THEN st
    ELSE LET event == events[i] IN
         IF event.type = "PlayerDied"
         THEN IF event.player_id \notin DOMAIN st.id_map
              THEN [st EXCEPT !.panicked = TRUE]
              ELSE tick_callback(
                     [st EXCEPT
                        !.id_map = MapRemove(st.id_map, event.player_id),
                        !.events = Append(st.events,
                                     [event EXCEPT !.player_id = st.id_map[event.player_id]])],
                     events, i + 1, game_data)
         ELSE IF event.type = "ProcessTick"
         THEN tick_callback(
                [st EXCEPT !.events = Append(st.events,
                                        [type |-> "ProcessTick", game_data |-> game_data,
                                         tick |-> event.tick])],
                events, i + 1, game_data)
         ELSE tick_callback([st EXCEPT !.events = Append(st.events, event)],
                            events, i + 1, game_data)

\* The outcomes [game, events, panicked] of LocalManager::tick
LocalManager_tick(game) ==
    {LET st == tick_callback([id_map |-> game.id_map, events |-> <<>>, panicked |-> FALSE],
                             r.events, 1, r.model.data)
     IN  [game |-> [game EXCEPT !.model = r.model, !.id_map = st.id_map],
          events |-> st.events,
          panicked |-> st.panicked] :
        r \in simulate_tick(game.model)}

(***************************************************************************)
(* GlobalManager (tournament/src/game.rs).  A handler's state st is        *)
(* [manager, competitor_tx, spectator_tx, score_tx, panicked]: the         *)
(* manager, what the handler has sent on each channel so far, and whether  *)
(* it has panicked.                                                        *)
(***************************************************************************)
GlobalManager_new(map) ==
    [ingame_players |-> EmptyMap,
     spawning_players |-> EmptyMap,
     games |-> Bucket_new,
     map |-> map]

Handler(manager) ==
    [manager |-> manager, competitor_tx |-> <<>>, spectator_tx |-> <<>>,
     score_tx |-> <<>>, panicked |-> FALSE]

SetGame(manager, game_id, game) ==
    [manager EXCEPT !.games = Bucket_set(manager.games, game_id, game)]

\* A variant of close_game that sends no GameClosed
close_game_unannounced(st, game_id) ==
    [st EXCEPT !.manager.games = Bucket_remove(st.manager.games, game_id)]

close_game(st, game_id) ==
    [st EXCEPT !.manager.games = Bucket_remove(st.manager.games, game_id),
               !.spectator_tx = Append(st.spectator_tx,
                                    [type |-> "GameClosed", game_id |-> game_id])]

send_competitor(st, msg) == [st EXCEPT !.competitor_tx = Append(st.competitor_tx, msg)]
send_spectator(st, msg) == [st EXCEPT !.spectator_tx = Append(st.spectator_tx, msg)]
send_score(st, msg) == [st EXCEPT !.score_tx = Append(st.score_tx, msg)]

handle_game_event(st, game_id, event) ==
    IF st.panicked THEN st
    ELSE IF event.type = "PlayerDied"
    THEN LET user_id == event.player_id
             told == send_competitor(st, [type |-> "PlayerDied", user_id |-> user_id,
                                          final_score |-> event.final_score])
         IN  IF user_id \in DOMAIN st.manager.ingame_players
             THEN send_spectator(
                    [told EXCEPT !.manager.ingame_players =
                                    MapRemove(st.manager.ingame_players, user_id)],
                    [type |-> "PlayerLeft", game_id |-> game_id, user_id |-> user_id,
                     in_game_player_id |->
                        st.manager.ingame_players[user_id].in_game_player_id])
             ELSE told
    ELSE IF event.type = "ProcessTick"
    THEN IF Bucket_contains(st.manager.games, game_id)
         THEN LET game == st.manager.games.inner[game_id]
                  ids == DOMAIN game.model.data.players.inner
              IN  IF \E player_id \in ids : player_id \notin DOMAIN game.id_map
                  THEN [st EXCEPT !.panicked = TRUE]
                  ELSE send_spectator(
                         send_competitor(
                           send_score(st,
                             [game_id |-> game_id,
                              player_scores |->
                                 {<<game.id_map[player_id],
                                    game.model.data.players.inner[player_id].score>> :
                                      player_id \in ids}]),
                           [type |-> "ProcessTick", game_id |-> game_id,
                            tick |-> event.tick, id_map |-> game.id_map]),
                         [type |-> "Tick", game_id |-> game_id,
                          game_data |-> event.game_data])
         ELSE st
    ELSE \* PlayerSpawned
         LET user_id == event.temporary_id
             in_game_player_id == event.id
         IN  IF ~Bucket_contains(st.manager.games, game_id)
                \/ user_id \notin DOMAIN st.manager.spawning_players
             THEN [st EXCEPT !.panicked = TRUE]
             ELSE LET game == st.manager.games.inner[game_id]
                      player == [st.manager.spawning_players[user_id] EXCEPT
                                    !.in_game_player_id = in_game_player_id]
                      manager ==
                        [SetGame(st.manager, game_id,
                                 [game EXCEPT !.id_map =
                                    MapInsert(game.id_map, in_game_player_id, user_id)])
                         EXCEPT !.spawning_players =
                                    MapRemove(st.manager.spawning_players, user_id),
                                !.ingame_players =
                                    MapInsert(st.manager.ingame_players, user_id, player)]
                  IN  send_spectator(
                        send_competitor([st EXCEPT !.manager = manager],
                           [type |-> "PlayerSpawned", game_id |-> game_id,
                            in_game_player_id |-> in_game_player_id,
                            user_id |-> user_id]),
                        [type |-> "PlayerSpawned", user_id |-> user_id,
                         in_game_player_id |-> in_game_player_id, game_id |-> game_id,
                         prev_high_score |-> player.high_score,
                         username |-> player.username])

\* for (game_id, game) in self.games.iter_mut(): acc is a set of
\* [manager, game_events, closing_games, panicked]; order is the order in
\* which the iterator yields the games
RECURSIVE tick_each(_, _)
tick_each(acc, order) ==
    IF order = <<>> THEN acc
    ELSE LET game_id == Head(order) IN
         tick_each(
            UNION {{[manager |-> SetGame(a.manager, game_id, r.game),
                     game_events |-> a.game_events \o
                                       [i \in 1..Len(r.events) |-> <<game_id, r.events[i]>>],
                     closing_games |-> IF should_close(r.game)
                                       THEN Append(a.closing_games, game_id)
                                       ELSE a.closing_games,
                     panicked |-> a.panicked \/ r.panicked] :
                        r \in LocalManager_tick(a.manager.games.inner[game_id])} :
                   a \in acc},
            Tail(order))

RECURSIVE handle_game_events(_, _, _)
handle_game_events(st, game_events, i) ==
    IF i > Len(game_events) THEN st
    ELSE handle_game_events(handle_game_event(st, game_events[i][1], game_events[i][2]),
                            game_events, i + 1)

RECURSIVE close_games(_, _, _)
close_games(st, closing_games, i) ==
    IF i > Len(closing_games) \/ st.panicked THEN st
    ELSE close_games(close_game(st, closing_games[i]), closing_games, i + 1)

\* The outcomes of tick_games
tick_games(manager) ==
    UNION {{close_games(
              handle_game_events([Handler(a.manager) EXCEPT !.panicked = a.panicked],
                                 a.game_events, 1),
              a.closing_games, 1) :
             a \in tick_each({[manager |-> manager, game_events |-> <<>>,
                               closing_games |-> <<>>, panicked |-> FALSE]}, order)} :
           order \in Orders(DOMAIN manager.games.inner)}

\* The outcomes [st, game_id] of add_player_to_game: the loop returns at the
\* first game, in the iterator's order, whose try_spawn_player succeeds
add_player_to_game(st, user_id, username) ==
    LET games == st.manager.games
        roomy == {game_id \in DOMAIN games.inner :
                    try_spawn_player(games.inner[game_id], user_id, username).ok}
    IN  IF roomy # {}
        THEN {[st |-> [st EXCEPT !.manager =
                          SetGame(st.manager, game_id,
                                  try_spawn_player(games.inner[game_id],
                                                   user_id, username).game)],
               game_id |-> game_id] : game_id \in roomy}
        ELSE LET i == minimum_available_id(games)
                 game == LocalManager_new(st.manager.map, i)
                 opened == send_spectator(st, [type |-> "GameOpened", game_id |-> i,
                                               game_data |-> game.model.data])
                 spawned == try_spawn_player(game, user_id, username)
             IN  {[st |-> IF ~spawned.ok \/ Bucket_contains(games, i)
                          THEN [opened EXCEPT !.panicked = TRUE]
                          ELSE [opened EXCEPT !.manager.games =
                                                Bucket_insert(games, i, spawned.game)],
                   game_id |-> i]}

already_playing(manager, user_id) ==
    \/ user_id \in DOMAIN manager.ingame_players
    \/ user_id \in DOMAIN manager.spawning_players

\* The outcomes of handle_incoming_event
handle_incoming_event(manager, event) ==
    LET st == Handler(manager) IN
    IF event.type = "Authenticated"
    THEN IF already_playing(manager, event.user_id)
         THEN {send_competitor(st, [type |-> "BadAuthentication",
                                    temporary_id |-> event.temporary_id,
                                    reason |-> "PlayerInGame"])}
         ELSE {[r.st EXCEPT !.manager.spawning_players =
                    MapInsert(r.st.manager.spawning_players, event.user_id,
                              [username |-> event.username,
                               high_score |-> event.high_score,
                               game_id |-> r.game_id,
                               in_game_player_id |-> 0])] :
                 r \in add_player_to_game(
                          send_competitor(st, [type |-> "Authenticated",
                                               temporary_id |-> event.temporary_id,
                                               id |-> event.user_id]),
                          event.user_id, event.username)}
    ELSE IF event.type = "Action"
    THEN IF event.user_id \notin DOMAIN manager.ingame_players THEN {st}
         ELSE LET player == manager.ingame_players[event.user_id] IN
              IF ~Bucket_contains(manager.games, player.game_id) THEN {st}
              ELSE LET game == play_action(manager.games.inner[player.game_id],
                                           player.in_game_player_id,
                                           event.action, event.tick)
                   IN  IF game.model.waiting_players < 0
                       THEN {[st EXCEPT !.panicked = TRUE]}
                       ELSE {[st EXCEPT !.manager =
                                SetGame(manager, player.game_id, game)]}
    ELSE \* PlayerDisconnected
         IF Bucket_contains(manager.games, event.game_id)
         THEN LET game == manager.games.inner[event.game_id] IN
              IF remove_client_panics(game, event.in_game_player_id)
              THEN {[st EXCEPT !.panicked = TRUE]}
              ELSE {[st EXCEPT !.manager =
                        [SetGame(manager, event.game_id,
                                 LocalManager_remove_client(game, event.in_game_player_id))
                         EXCEPT !.ingame_players =
                                    MapRemove(manager.ingame_players, event.user_id)]]}
         ELSE {st}

\* An Option is a sequence of length at most one
None == <<>>
Some(v) == <<v>>

(***************************************************************************)
(* The tick message (model/src/network.rs).  The view is the 3 x 4 array   *)
(* of TileViews, view[ix + 1][iy + 1] here for the source's view[ix][iy].  *)
(***************************************************************************)
\* A variant of view_cell that takes every player to face North
view_cell_unrotated(player_x, player_y, direction, x, y) ==
    <<player_x + x, player_y - y>>

\* The match on direction of the closure c: (new_x, new_y), which are i32
view_cell(player_x, player_y, direction, x, y) ==
    CASE direction = "North" -> <<player_x + x, player_y - y>>
      [] direction = "East"  -> <<player_x + y, player_y + x>>
      [] direction = "South" -> <<player_x - x, player_y + y>>
      [] direction = "West"  -> <<player_x - y, player_y - x>>

PlayerView(player, is_current_player) ==
    [direction |-> player.direction,
     health |-> player.health,
     is_invulnerable |-> Player_is_invulnerable(player),
     has_powerpill |-> player.has_powerpill,
     score |-> player.score,
     username |-> player.username,
     is_current_player |-> is_current_player]

MobView(mob) == [direction |-> mob.direction]

\* The closure c of create_tick_message: [tile, panicked], panicked where an
\* unwrap of the entity's bucket entry fails
TileView(game_data, player_id, x, y) ==
    LET player == game_data.players.inner[player_id]
        is_current_player == x = 0 /\ y = 0
        new == view_cell(player.pos[1], player.pos[2], player.direction, x, y)
        off == [base |-> "Wall", mob |-> None, player |-> None, food |-> "None"]
    IN  IF new[1] < 0 \/ new[2] < 0 \/ new[1] >= game_data.map.width
            \/ new[2] >= game_data.map.height
        THEN [tile |-> off, panicked |-> FALSE]
        ELSE LET entity_index == game_data.entities[new] IN
             IF entity_index # NoEntity
                /\ ~Bucket_contains(IF entity_index.entity_type = "Mob"
                                    THEN game_data.mobs ELSE game_data.players,
                                    entity_index.index)
             THEN [tile |-> off, panicked |-> TRUE]
             ELSE [tile |->
                     [base |-> base_tile(game_data.map, new),
                      food |-> game_data.food[new],
                      player |-> IF entity_index.entity_type = "Player"
                                 THEN Some(PlayerView(
                                        game_data.players.inner[entity_index.index],
                                        is_current_player))
                                 ELSE None,
                      mob |-> IF entity_index.entity_type = "Mob"
                              THEN Some(MobView(game_data.mobs.inner[entity_index.index]))
                              ELSE None],
                   panicked |-> FALSE]

\* [view, tick, panicked]; the caller has checked that player_id is a player
create_tick_message(game_data, player_id, tick) ==
    LET c(x, y) == TileView(game_data, player_id, x, y) IN
    [view |-> [ix \in 1..3 |-> [iy \in 1..4 |-> c(ix - 2, 3 - iy).tile]],
     tick |-> tick,
     panicked |-> \E ix \in 1..3, iy \in 1..4 : c(ix - 2, 3 - iy).panicked]

(***************************************************************************)
(* AuthenticationManager (tournament/src/authentication.rs).  db is the    *)
(* users table: username -> [id, code, enabled, high_score]; the result is *)
(* what the spawned task sends on each channel.                            *)
(***************************************************************************)
authenticate_user_enabled_first(db, request) ==
    LET bad(reason) ==
            [game_tx |-> <<>>,
             competitor_tx |-> <<[type |-> "BadAuthentication",
                                  temporary_id |-> request.temporary_id,
                                  reason |-> reason]>>]
    IN  IF request.username \notin DOMAIN db THEN bad("PlayerNotFound")
        ELSE LET user == db[request.username] IN
             IF ~user.enabled THEN bad("PlayerNotEnabled")
             ELSE IF user.code # request.code THEN bad("BadCode")
             ELSE [game_tx |-> <<[type |-> "Authenticated",
                                  username |-> request.username,
                                  high_score |-> user.high_score,
                                  user_id |-> user.id,
                                  temporary_id |-> request.temporary_id]>>,
                   competitor_tx |-> <<>>]

authenticate_user(db, request) ==
    LET bad(reason) ==
            [game_tx |-> <<>>,
             competitor_tx |-> <<[type |-> "BadAuthentication",
                                  temporary_id |-> request.temporary_id,
                                  reason |-> reason]>>]
    IN  IF request.username \notin DOMAIN db THEN bad("PlayerNotFound")
        ELSE LET user == db[request.username] IN
             IF user.code # request.code THEN bad("BadCode")
             ELSE IF ~user.enabled THEN bad("PlayerNotEnabled")
             ELSE [game_tx |-> <<[type |-> "Authenticated",
                                  username |-> request.username,
                                  high_score |-> user.high_score,
                                  user_id |-> user.id,
                                  temporary_id |-> request.temporary_id]>>,
                   competitor_tx |-> <<>>]

\* The outcomes of the task spawned for a request.  get_user_by_username is
\* the environment: the lookup completes, or the query fails (Err(_), which
\* the task only prints) or there is no connection to the database (the
\* expect of pool.get() ends the task); in both failures nothing is sent.
authenticate_user_task(db, request) ==
    {authenticate_user(db, request), [game_tx |-> <<>>, competitor_tx |-> <<>>]}

(***************************************************************************)
(* MessageStream::poll_next (tournament/src/connection.rs).  A byte is a   *)
(* string of length one; the buffer is the sequence of its first buf_len   *)
(* bytes, the bytes after them being zero.  poll_read is the environment:  *)
(* read is [kind, bytes], kind "Ready" with the bytes read (none at the    *)
(* end of the stream), "Err" or "Pending".                                 *)
(***************************************************************************)
NewLine == "\n"

MessageStream_unread == [buf |-> <<>>, connected |-> TRUE]

\* The index of the first newline of the buffer, 0 if there is none
first_newline(buf) ==
    IF \E i \in DOMAIN buf : buf[i] = NewLine
    THEN CHOOSE i \in DOMAIN buf :
            buf[i] = NewLine /\ \A j \in 1..(i - 1) : buf[j] # NewLine
    ELSE 0

\* [message_stream, poll, item, polled]: poll_next returns Pending, or
\* Ready with the item Some message or None; polled tells whether poll_read
\* was called
MessageStream_poll_next(ms, read) ==
    IF ~ms.connected
    THEN [message_stream |-> ms, poll |-> "Ready", item |-> None, polled |-> FALSE]
    ELSE IF first_newline(ms.buf) # 0
    THEN LET i == first_newline(ms.buf) IN
         [message_stream |-> [ms EXCEPT !.buf = SubSeq(ms.buf, i + 1, Len(ms.buf))],
          poll |-> "Ready", item |-> Some(SubSeq(ms.buf, 1, i - 1)),
          polled |-> FALSE]
    ELSE LET buf == IF Len(ms.buf) = BufSize THEN <<>> ELSE ms.buf IN
         IF read.kind = "Pending"
         THEN [message_stream |-> [ms EXCEPT !.buf = buf],
               poll |-> "Pending", item |-> None, polled |-> TRUE]
         ELSE IF read.kind = "Err" \/ read.bytes = <<>>
         THEN [message_stream |-> [buf |-> buf, connected |-> FALSE],
               poll |-> "Ready", item |-> None, polled |-> TRUE]
         ELSE [message_stream |-> [ms EXCEPT !.buf = buf \o read.bytes],
               poll |-> "Pending", item |-> None, polled |-> TRUE]

(***************************************************************************)
(* competitor::Manager (tournament/src/competitor.rs), StreamMapBucket     *)
(* (tournament/src/stream_map_bucket.rs) and the MessageStream             *)
(* (tournament/src/connection.rs) as the Manager sees it.  A MessageStream *)
(* is [peer_gone, written, requested, kept]: peer_gone is the environment  *)
(* (the peer has closed or reset the connection, so that poll_next yields  *)
(* None), written is the history of the messages send was called with      *)
(* (without one whose failure made the Manager panic), requested the       *)
(* history of the AuthenticationRequests sent for it; kept tells whether    *)
(* the behaviour keeps the history of this stream.  An entry of a          *)
(* StreamMapBucket is [disconnectable, metadata, stream]; a handler's      *)
(* result carries the manager, `panicked`, and the streams it dropped.     *)
(***************************************************************************)
MessageStream_new(kept) ==
    [peer_gone |-> FALSE, written |-> <<>>, requested |-> 0, kept |-> kept]

MessageStream_send(stream, msg) ==
    IF stream.kept THEN [stream EXCEPT !.written = Append(@, msg)] ELSE stream

\* The results write_all can have: a write to a connection the peer has
\* closed or reset succeeds or fails
write_all(stream) == IF stream.peer_gone THEN {"Ok", "Err"} ELSE {"Ok"}

RECURSIVE send_times(_, _, _)
send_times(stream, msg, n) ==
    IF n = 0 THEN stream ELSE send_times(MessageStream_send(stream, msg), msg, n - 1)

StreamMapBucket_new == Bucket_new

insert_stream(bucket, id, stream, metadata, disconnectable) ==
    Bucket_insert(bucket, id, [disconnectable |-> disconnectable,
                               metadata |-> metadata, stream |-> stream])

add_stream(bucket, stream, metadata) ==
    Bucket_add(bucket, [disconnectable |-> TRUE, metadata |-> metadata,
                        stream |-> stream])

remove_stream(bucket, id) == Bucket_remove(bucket, id)

set_disconnectable_not(bucket, id, disconnectable) == bucket

set_disconnectable(bucket, id, disconnectable) ==
    Bucket_set(bucket, id, [bucket.inner[id] EXCEPT !.disconnectable = disconnectable])

\* The streams insert_stream or remove_stream hands back for this id
StreamsAt(bucket, id) ==
    IF Bucket_contains(bucket, id) THEN {bucket.inner[id].stream} ELSE {}

\* The ids for which poll_next yields Disconnection, removing the stream: a
\* stream that yields None is removed only if it is disconnectable
poll_next_disconnection(bucket) ==
    {id \in DOMAIN bucket.inner :
        bucket.inner[id].stream.peer_gone /\ bucket.inner[id].disconnectable}

Competitor_new ==
    [unauthenticated |-> StreamMapBucket_new,
     spawning |-> StreamMapBucket_new,
     in_game |-> StreamMapBucket_new]

handle_incoming_connection(c, stream) ==
    [c EXCEPT !.unauthenticated = add_stream(c.unauthenticated, stream, FALSE)]

\* serde_json::from_str::<AuthenticationMessage>: msg is [well_formed,
\* username, code], a line that is a well formed AuthenticationMessage or not
from_str(msg) ==
    IF msg.well_formed THEN Some([username |-> msg.username, code |-> msg.code])
    ELSE None

handle_unauthenticated_message_again(c, temporary_id, msg) ==
    IF from_str(msg) = None
    THEN [competitor |-> c, authentication_request_sender |-> <<>>]
    ELSE [competitor |->
            [c EXCEPT !.unauthenticated =
                set_disconnectable(
                    Bucket_set(c.unauthenticated, temporary_id,
                        [c.unauthenticated.inner[temporary_id] EXCEPT
                            !.metadata = TRUE,
                            !.stream.requested = @ + 1]),
                    temporary_id, FALSE)],
          authentication_request_sender |->
            <<[username |-> from_str(msg)[1].username, code |-> from_str(msg)[1].code,
               temporary_id |-> temporary_id]>>]

\* [competitor, authentication_request_sender]: the manager and the
\* requests sent
handle_unauthenticated_message(c, temporary_id, msg) ==
    IF c.unauthenticated.inner[temporary_id].metadata \/ from_str(msg) = None
    THEN [competitor |-> c, authentication_request_sender |-> <<>>]
    ELSE [competitor |->
            [c EXCEPT !.unauthenticated =
                set_disconnectable(
                    Bucket_set(c.unauthenticated, temporary_id,
                        [c.unauthenticated.inner[temporary_id] EXCEPT
                            !.metadata = TRUE,
                            !.stream.requested = @ + 1]),
                    temporary_id, FALSE)],
          authentication_request_sender |->
            <<[username |-> from_str(msg)[1].username, code |-> from_str(msg)[1].code,
               temporary_id |-> temporary_id]>>]

\* msg is the decoded ActionMessage
handle_ingame_message(user_id, msg) ==
    [type |-> "Action", user_id |-> user_id, action |-> msg.action, tick |-> msg.tick]

\* StreamMapEvent::Disconnection of an in_game stream: poll_next has removed
\* the stream, the select arm sends PlayerDisconnected with its metadata
ingame_disconnection(c, user_id) ==
    [competitor |-> [c EXCEPT !.in_game = remove_stream(c.in_game, user_id)],
     tx |-> <<[type |-> "PlayerDisconnected", user_id |-> user_id,
               game_id |-> c.in_game.inner[user_id].metadata.game_id,
               in_game_player_id |->
                    c.in_game.inner[user_id].metadata.in_game_player_id]>>,
     dropped |-> {c.in_game.inner[user_id].stream}]

\* StreamMapEvent::Disconnection of an unauthenticated stream: poll_next has
\* removed the stream, the select arm asserts that no authentication was in
\* progress for it
unauthenticated_disconnection(c, temporary_id) ==
    [competitor |-> [c EXCEPT !.unauthenticated =
                                remove_stream(c.unauthenticated, temporary_id)],
     panicked |-> c.unauthenticated.inner[temporary_id].metadata,
     dropped |-> {c.unauthenticated.inner[temporary_id].stream}]

process_tick_same_tick(in_game, id_map, tick) ==
    [inner |->
        [user_id \in DOMAIN in_game.inner |->
            [in_game.inner[user_id] EXCEPT
                !.stream = send_times(@, [type |-> "tick", tick |-> 0],
                                Cardinality({player_id \in DOMAIN id_map :
                                                id_map[player_id] = user_id}))]],
     max_id |-> in_game.max_id]

\* ProcessTick: a tick message on the in_game stream of the user of each
\* entry of id_map
process_tick(in_game, id_map, tick) ==
    [inner |->
        [user_id \in DOMAIN in_game.inner |->
            [in_game.inner[user_id] EXCEPT
                !.stream = send_times(@, [type |-> "tick", tick |-> tick],
                                Cardinality({player_id \in DOMAIN id_map :
                                                id_map[player_id] = user_id}))]],
     max_id |-> in_game.max_id]

Competitor_handle_game_event(c, event) ==
    IF event.type = "PlayerDied"
    THEN IF ~Bucket_contains(c.in_game, event.user_id)
         THEN [competitor |-> c, panicked |-> TRUE, dropped |-> {}]
         ELSE [competitor |-> [c EXCEPT !.in_game = remove_stream(c.in_game, event.user_id)],
               panicked |-> FALSE,
               dropped |-> {MessageStream_send(c.in_game.inner[event.user_id].stream,
                                [type |-> "died", final_score |-> event.final_score])}]
    ELSE IF event.type = "PlayerSpawned"
    THEN IF ~Bucket_contains(c.spawning, event.user_id)
         THEN [competitor |-> c, panicked |-> TRUE, dropped |-> {}]
         ELSE [competitor |->
                 [c EXCEPT !.spawning = remove_stream(c.spawning, event.user_id),
                           !.in_game = insert_stream(c.in_game, event.user_id,
                                          MessageStream_send(
                                            c.spawning.inner[event.user_id].stream,
                                            [type |-> "spawned",
                                             game_id |-> event.game_id]),
                                          [game_id |-> event.game_id,
                                           in_game_player_id |-> event.in_game_player_id],
                                          TRUE)],
               panicked |-> FALSE,
               dropped |-> StreamsAt(c.in_game, event.user_id)]
    ELSE [competitor |-> [c EXCEPT !.in_game = process_tick(c.in_game, event.id_map,
                                                            event.tick)],
          panicked |-> FALSE, dropped |-> {}]

\* The outcomes of handle_authentication_event: the result of sending the
\* error of a BadAuthentication is unwrapped
handle_authentication_event(c, event) ==
    IF ~Bucket_contains(c.unauthenticated, event.temporary_id)
    THEN {[competitor |-> c, panicked |-> TRUE, dropped |-> {}]}
    ELSE LET stream == c.unauthenticated.inner[event.temporary_id].stream IN
         IF event.type = "Authenticated"
         THEN {[competitor |->
                 [c EXCEPT !.unauthenticated =
                                remove_stream(c.unauthenticated, event.temporary_id),
                           !.spawning = insert_stream(c.spawning, event.id, stream,
                                                      "unit", FALSE)],
                panicked |-> FALSE,
                dropped |-> StreamsAt(c.spawning, event.id)]}
         ELSE {[competitor |->
                 [c EXCEPT !.unauthenticated =
                                remove_stream(c.unauthenticated, event.temporary_id)],
                panicked |-> result = "Err",
                dropped |-> {IF result = "Ok"
                             THEN MessageStream_send(stream,
                                    [type |-> "error", reason |-> event.reason])
                             ELSE stream}] :
                    result \in write_all(stream)}

(***************************************************************************)
(* Spectator messages (tournament/src/spectator/initial.rs, delta.rs,      *)
(* message.rs).  An Option is a sequence of length at most one; a          *)
(* message's grid is its column-major vector; positions in a delta are     *)
(* the flattened u32.                                                      *)
(***************************************************************************)
flatten_coordinate(height, pos) == pos[1] * height + pos[2]

\* Entity::is_invulnerable: the trait's default for a mob, Player's override
is_invulnerable(entity_type, e) ==
    IF entity_type = "Player" THEN Player_is_invulnerable(e) ELSE FALSE

\* the score_getter closures of create_delta_message
score_getter(entity_type, e) ==
    IF entity_type = "Player" THEN Some(e.score) ELSE None

DynamicEntityMetadata(entity_type, e) ==
    [invulnerable |-> is_invulnerable(entity_type, e),
     direction |-> e.direction,
     live_score |-> score_getter(entity_type, e)]

\* the player_static_data_getter closures; the caller checks the unwrap
PlayerStaticMetadata(entity_type, id_map, id) ==
    IF entity_type = "Player"
    THEN Some([high_score |-> id_map[id].prev_high_score,
               username |-> id_map[id].username])
    ELSE None

CompleteEntityMetadata(entity_type, id, e, id_map) ==
    [entity_type |-> entity_type,
     variant |-> id % 256,
     player_data |-> PlayerStaticMetadata(entity_type, id_map, id),
     dynamic |-> DynamicEntityMetadata(entity_type, e)]

EntitiesOf(game_data, entity_type) ==
    IF entity_type = "Player" THEN game_data.players ELSE game_data.mobs

\* [message, panicked]
create_initial_message(game_id, game_data, id_map) ==
    LET order == GridOrder(game_data.map)
        missing(i) ==
            LET entity_index == game_data.entities[order[i]] IN
            /\ entity_index # NoEntity
            /\ \/ ~Bucket_contains(EntitiesOf(game_data, entity_index.entity_type),
                                   entity_index.index)
               \/ entity_index.entity_type = "Player"
                    /\ entity_index.index \notin DOMAIN id_map
        cell(i) ==
            LET entity_index == game_data.entities[order[i]] IN
            IF entity_index = NoEntity THEN None
            ELSE Some(CompleteEntityMetadata(
                        entity_index.entity_type, entity_index.index,
                        EntitiesOf(game_data, entity_index.entity_type)
                            .inner[entity_index.index],
                        id_map))
    IN  IF \E i \in 1..Len(order) : missing(i)
        THEN [message |-> None, panicked |-> TRUE]
        ELSE [message |->
                Some([type |-> "Initial",
                      game_id |-> game_id,
                      entities |-> [i \in 1..Len(order) |-> cell(i)],
                      width |-> game_data.map.width,
                      height |-> game_data.map.height,
                      base_tiles |-> [i \in 1..Len(order) |->
                                        base_tile(game_data.map, order[i])],
                      food |-> [i \in 1..Len(order) |-> game_data.food[order[i]]]]),
              panicked |-> FALSE]

\* The scan of the old grid in find_entity_deltas: d is the record of the
\* four vectors and `panicked`
RECURSIVE scan_old_grid(_, _, _, _, _, _, _, _)
scan_old_grid(d, old_entities, new_entities, old_grid, entity_type, order, height, i) ==
    IF i > Len(order) \/ d.panicked THEN d
    ELSE LET old_entity_index == old_grid[order[i]]
             entity_id == old_entity_index.index
         IN  IF old_entity_index = NoEntity \/ old_entity_index.entity_type # entity_type
             THEN scan_old_grid(d, old_entities, new_entities, old_grid,
                                entity_type, order, height, i + 1)
             ELSE IF ~Bucket_contains(old_entities, entity_id)
             THEN [d EXCEPT !.panicked = TRUE]
             ELSE LET old_entity == old_entities.inner[entity_id]
                      old_at == old_grid[old_entity.pos]
                      found ==
                        IF Bucket_contains(new_entities, entity_id)
                        THEN LET new_entity == new_entities.inner[entity_id]
                                 moved ==
                                    IF new_entity.pos # old_entity.pos
                                    THEN [d EXCEPT !.entity_moved = Append(@,
                                            [start |-> flatten_coordinate(height, old_entity.pos),
                                             end |-> flatten_coordinate(height, new_entity.pos)])]
                                    ELSE d
                             IN  IF DynamicEntityMetadata(entity_type, new_entity)
                                      # DynamicEntityMetadata(entity_type, old_entity)
                                 THEN [moved EXCEPT !.metadata_changed = Append(@,
                                         [position |-> flatten_coordinate(height, new_entity.pos),
                                          metadata |->
                                            DynamicEntityMetadata(entity_type, new_entity)])]
                                 ELSE moved
                        ELSE [d EXCEPT !.entity_died = Append(@,
                                [position |-> flatten_coordinate(height, old_entity.pos)])]
                  IN  IF old_at = NoEntity \/ old_at.index # entity_id
                      THEN [found EXCEPT !.panicked = TRUE]
                      ELSE scan_old_grid(found, old_entities, new_entities, old_grid,
                                         entity_type, order, height, i + 1)

\* The new entities that were not in old_entities, pushed in the order
\* `spawned` in which the bucket's iterator yields them
RECURSIVE push_spawned(_, _, _, _, _, _, _)
push_spawned(d, new_entities, entity_type, id_map, height, spawned, i) ==
    IF i > Len(spawned) \/ d.panicked THEN d
    ELSE LET entity_id == spawned[i]
             new_entity == new_entities.inner[entity_id]
         IN  IF entity_type = "Player" /\ entity_id \notin DOMAIN id_map
             THEN [d EXCEPT !.panicked = TRUE]
             ELSE push_spawned(
                    [d EXCEPT !.entity_spawned = Append(@,
                        [position |-> flatten_coordinate(height, new_entity.pos),
                         metadata |-> CompleteEntityMetadata(entity_type, entity_id,
                                                             new_entity, id_map)])],
                    new_entities, entity_type, id_map, height, spawned, i + 1)

\* The outcomes of find_entity_deltas
find_entity_deltas(d, old_entities, new_entities, old_grid, id_map, entity_type, map) ==
    LET scanned == scan_old_grid(d, old_entities, new_entities, old_grid, entity_type,
                                 GridOrder(map), map.height, 1)
    IN  {push_spawned(scanned, new_entities, entity_type, id_map, map.height, spawned, 1) :
            spawned \in Orders({id \in DOMAIN new_entities.inner :
                                    ~Bucket_contains(old_entities, id)})}

RECURSIVE find_food_deltas(_, _, _, _, _)
find_food_deltas(d, old_food, new_food, order, i) ==
    IF i > Len(order) THEN d
    ELSE LET old == old_food[order[i]]
             new == new_food[order[i]]
             position == i - 1
             next == IF old # "None" /\ new = "None"
                     THEN [d EXCEPT !.food_eaten = Append(@, [position |-> position])]
                     ELSE IF new # "None" /\ old # new
                     THEN [d EXCEPT !.food_spawned = Append(@,
                                [position |-> position, food_type |-> new])]
                     ELSE d
         IN  find_food_deltas(next, old_food, new_food, order, i + 1)

\* The entity kinds in the order create_delta_message processes them
kinds == <<"Mob", "Player">>

\* The outcomes [message, panicked] of create_delta_message
create_delta_message(game_id, old_state, new_state, id_map) ==
    LET empty == [entity_died |-> <<>>, entity_moved |-> <<>>, entity_spawned |-> <<>>,
                  food_eaten |-> <<>>, food_spawned |-> <<>>, metadata_changed |-> <<>>,
                  panicked |-> FALSE]
        deltas(d, entity_type) ==
            find_entity_deltas(d, EntitiesOf(old_state, entity_type),
                               EntitiesOf(new_state, entity_type),
                               old_state.entities, id_map, entity_type, old_state.map)
        first == deltas(empty, kinds[1])
        second == UNION {deltas(d, kinds[2]) : d \in first}
    IN  {LET f == find_food_deltas(d, old_state.food, new_state.food,
                                   GridOrder(old_state.map), 1)
         IN  [message |-> [type |-> "Delta",
                           game_id |-> game_id,
                           entity_died |-> f.entity_died,
                           entity_moved |-> f.entity_moved,
                           entity_spawned |-> f.entity_spawned,
                           food_eaten |-> f.food_eaten,
                           food_spawned |-> f.food_spawned,
                           metadata_changed |-> f.metadata_changed],
              panicked |-> f.panicked] :
            d \in second}

(***************************************************************************)
(* spectator::Manager (tournament/src/spectator.rs).  games maps a game id *)
(* to the pair (id_map, game_data); a handler's outcome carries the        *)
(* manager, the messages broadcast and `panicked`.                         *)
(***************************************************************************)
Spectator_new == [games |-> EmptyMap]

\* The outcomes of spectator::Manager::handle_event
Spectator_handle_event(sp, event) ==
    LET failed == {[spectator |-> sp, broadcaster |-> <<>>, panicked |-> TRUE]}
        known == event.game_id \in DOMAIN sp.games
    IN  IF event.type = "GameOpened"
        THEN LET initial == create_initial_message(event.game_id, event.game_data, EmptyMap)
             IN  IF initial.panicked \/ known THEN failed
                 ELSE {[spectator |->
                          [sp EXCEPT !.games = MapInsert(sp.games, event.game_id,
                                [id_map |-> EmptyMap, game_data |-> event.game_data])],
                        broadcaster |-> initial.message,
                        panicked |-> FALSE]}
        ELSE IF ~known THEN failed
        ELSE IF event.type = "GameClosed"
        THEN {[spectator |-> [sp EXCEPT !.games = MapRemove(sp.games, event.game_id)],
               broadcaster |-> <<[type |-> "GameClosed", game_id |-> event.game_id]>>,
               panicked |-> FALSE]}
        ELSE IF event.type = "PlayerSpawned"
        THEN {[spectator |->
                 [sp EXCEPT !.games[event.game_id].id_map =
                    MapInsert(@, event.in_game_player_id,
                              [username |-> event.username,
                               prev_high_score |-> event.prev_high_score,
                               user_id |-> event.user_id])],
               broadcaster |-> <<>>,
               panicked |-> FALSE]}
        ELSE IF event.type = "PlayerLeft"
        THEN {[spectator |->
                 [sp EXCEPT !.games[event.game_id].id_map =
                    MapRemove(@, event.in_game_player_id)],
               broadcaster |-> <<>>,
               panicked |-> FALSE]}
        ELSE \* Tick
             {[spectator |-> [sp EXCEPT !.games[event.game_id].game_data = event.game_data],
               broadcaster |-> <<r.message>>,
               panicked |-> r.panicked] :
                r \in create_delta_message(event.game_id,
                                           sp.games[event.game_id].game_data,
                                           event.game_data,
                                           sp.games[event.game_id].id_map)}

\* Spectator::start on the clone of the games handle_incoming_websocket
\* passes it: the outcomes [games, sent, panicked], an InitialMessage sent
\* for each game in the order of the iterator, until building one panics
RECURSIVE send_initials(_, _, _, _)
send_initials(games, order, i, sent) ==
    IF i > Len(order)
    THEN [games |-> DOMAIN games, sent |-> sent, panicked |-> FALSE]
    ELSE LET initial == create_initial_message(order[i], games[order[i]].game_data,
                                               games[order[i]].id_map)
         IN  IF initial.panicked
             THEN [games |-> DOMAIN games, sent |-> sent, panicked |-> TRUE]
             ELSE send_initials(games, order, i + 1, sent \o initial.message)

Spectator_start(games) ==
    {send_initials(games, order, 1, <<>>) : order \in Orders(DOMAIN games)}

(***************************************************************************)
(* A spectator's reconstruction: the grids of the Initial message, then    *)
(* each Delta applied as deaths, moves, spawns, food eaten, food spawned,  *)
(* metadata changes, each vector in its emitted order.  Grids are the      *)
(* column-major vectors, so flattened position p is index p + 1.           *)
(***************************************************************************)
RECURSIVE ApplyEach(_, _, _, _)
ApplyEach(Op(_, _), grid, items, i) ==
    IF i > Len(items) THEN grid
    ELSE ApplyEach(Op, Op(grid, items[i]), items, i + 1)

ApplyDied(entities, e) == [entities EXCEPT ![e.position + 1] = None]

ApplyMoved(entities, e) ==
    IF e.start = e.end THEN entities
    ELSE [entities EXCEPT ![e.end + 1] = entities[e.start + 1], ![e.start + 1] = None]

ApplySpawned(entities, e) == [entities EXCEPT ![e.position + 1] = Some(e.metadata)]

ApplyFoodEaten(food, e) == [food EXCEPT ![e.position + 1] = "None"]

ApplyFoodSpawned(food, e) == [food EXCEPT ![e.position + 1] = e.food_type]

ApplyMetadataChanged(entities, e) ==
    IF entities[e.position + 1] = None THEN entities
    ELSE [entities EXCEPT ![e.position + 1] =
            Some([entities[e.position + 1][1] EXCEPT !.dynamic = e.metadata])]

ApplyInitial(initial) == [entities |-> initial.entities, food |-> initial.food]

ApplyDelta(grids, delta) ==
    [entities |->
        ApplyEach(ApplyMetadataChanged,
            ApplyEach(ApplySpawned,
                ApplyEach(ApplyMoved,
                    ApplyEach(ApplyDied, grids.entities, delta.entity_died, 1),
                    delta.entity_moved, 1),
                delta.entity_spawned, 1),
            delta.metadata_changed, 1),
     food |->
        ApplyEach(ApplyFoodSpawned,
            ApplyEach(ApplyFoodEaten, grids.food, delta.food_eaten, 1),
            delta.food_spawned, 1)]

\* The reconstructions after one broadcast message
ApplyBroadcast(seen, message) ==
    IF message.type = "Initial"
    THEN MapInsert(seen, message.game_id, ApplyInitial(message))
    ELSE IF message.type = "GameClosed"
    THEN MapRemove(seen, message.game_id)
    ELSE [seen EXCEPT ![message.game_id] = ApplyDelta(@, message)]

\* What a GameData shows: per cell of the column-major order, the entity's
\* type, id, dynamic metadata and username, and the food
Shown(game_data) ==
    LET order == GridOrder(game_data.map)
        cell(i) ==
            LET entity_index == game_data.entities[order[i]]
                e == EntitiesOf(game_data, entity_index.entity_type).inner[entity_index.index]
            IN  IF entity_index = NoEntity THEN None
                ELSE Some([entity_type |-> entity_index.entity_type,
                           variant |-> entity_index.index % 256,
                           dynamic |-> DynamicEntityMetadata(entity_index.entity_type, e),
                           username |-> IF entity_index.entity_type = "Player"
                                        THEN Some(e.username) ELSE None])
    IN  [entities |-> [i \in 1..Len(order) |-> cell(i)],
         food |-> [i \in 1..Len(order) |-> game_data.food[order[i]]]]

\* The same of a reconstruction
Seen(grids) ==
    [entities |-> [i \in 1..Len(grids.entities) |->
                    IF grids.entities[i] = None THEN None
                    ELSE LET m == grids.entities[i][1] IN
                         Some([entity_type |-> m.entity_type,
                               variant |-> m.variant,
                               dynamic |-> m.dynamic,
                               username |-> IF m.player_data = None THEN None
                                            ELSE Some(m.player_data[1].username)])],
     food |-> grids.food]

(***************************************************************************)
(* The simulation on its own: one Model under add_client, player_action,   *)
(* remove_client and simulate_tick.                                        *)
(***************************************************************************)
VARIABLES
    clients,    \* the environment: the clients that connect to the Model
    model,      \* the Model
    events,     \* the GameEvents of the last simulate_tick, in callback order
    eaten,      \* history: the cells players ate from in the last tick
    strikes,    \* history: the attack_square calls of the last tick
    db,             \* the users table the AuthenticationManager reads
    manager,        \* the GlobalManager
    rx,             \* the channel into the GlobalManager
    competitor,     \* the competitor::Manager
    competitor_rx,  \* the channel into the competitor::Manager
    spectator,      \* the spectator::Manager
    view,           \* history: a spectator's reconstruction of each game
    now,            \* the number of times the tick interval has fired
    arriving,       \* the environment: the users still to sign in, in their order
    crashed,        \* a task has panicked: the server has exited
    closed,         \* history: the MessageStreams dropped by the last handler
                    \* of the competitor::Manager that removes streams
    spectator_rx,   \* the channel into the spectator::Manager, where it is
                    \* not received from at once
    welcome,        \* history: what the last Spectator task sent when it
                    \* started, and the games that were open
    broadcaster,    \* history: the BroadcastEvents sent on the broadcast
                    \* channel, of which it retains the last ones
    spectator_task, \* a Spectator task with its Receiver and its socket (an
                    \* Option)
    bucket,         \* a Bucket on its own
    returned,       \* history: the last call on bucket, what it returned, and
                    \* the Bucket before it
    lookup,         \* history: the last AuthenticationRequest answered, and
                    \* what its task sent on each channel
    message_stream, \* a MessageStream on its own: [buf, connected], buf the
                    \* first buf_len bytes of its buffer
    socket,         \* the environment: [unread, closed, sent], the bytes the
                    \* peer has sent that are not read yet, whether it has
                    \* closed, and (history) all the bytes it has sent
    yielded,        \* history: the messages poll_next has yielded
    tick_message,   \* the tick messages made from the last snapshot, one for
                    \* each of its players, with the snapshot
    score_updates   \* history: the pairs <<user_id, score>> of the
                    \* ScoreUpdates sent on score_tx so far

simvars == <<clients, model, events, eaten, strikes>>
watchvars == <<spectator_rx, welcome, broadcaster, spectator_task>>
fleetvars == <<db, manager, rx, competitor, competitor_rx, spectator, view, now,
               arriving, crashed, closed, watchvars>>
bucketvars == <<bucket, returned>>
streamvars == <<message_stream, socket, yielded>>
unitvars == <<bucketvars, lookup, streamvars, tick_message, score_updates>>
vars == <<simvars, fleetvars, unitvars>>

\* The parts on their own while the simulation or the fleet runs
NoUnit ==
    /\ bucket = Bucket_new
    /\ returned = [op |-> "new", id |-> 0, before |-> Bucket_new]
    /\ lookup = <<>>
    /\ message_stream = MessageStream_unread
    /\ socket = [unread |-> <<>>, closed |-> FALSE, sent |-> <<>>]
    /\ yielded = <<>>
    /\ tick_message = <<>>
    /\ score_updates = {}

\* The fleet while the simulation runs on its own
NoFleet ==
    /\ db = EmptyMap
    /\ manager = GlobalManager_new(new_from_string(<< <<" ">> >>))
    /\ rx = <<>>
    /\ competitor = Competitor_new
    /\ competitor_rx = <<>>
    /\ spectator = Spectator_new
    /\ view = EmptyMap
    /\ now = 0
    /\ arriving = <<>>
    /\ crashed = FALSE
    /\ closed = {}
    /\ spectator_rx = <<>>
    /\ welcome = <<>>
    /\ broadcaster = <<>>
    /\ spectator_task = <<>>

\* Two players side by side
MapRow == new_from_string(<< <<"P", "P">> >>)
\* A mob spawn above a power pill above a player spawn
MapColumn == new_from_string(<< <<"M">>, <<"|">>, <<"P">> >>)
\* A player spawn above a mob spawn
MapHunt == new_from_string(<< <<"P">>, <<"M">> >>)
\* No spawn points (both spawn policies Random), a fruit and a wall
MapLine == new_from_string(<< <<".", " ", "X">> >>)

\* What a Model is constructed with, and who connects to it: the map, the
\* desired_mob_count, and the (temporary_id, username) pairs add_client is
\* called with
Configs ==
    {[map |-> MapRow, desired_mob_count |-> 0, clients |-> {<<1, "a">>, <<2, "b">>}],
     [map |-> MapColumn, desired_mob_count |-> 1, clients |-> {<<1, "a">>}],
     [map |-> MapHunt, desired_mob_count |-> 1, clients |-> {<<1, "a">>}],
     [map |-> MapLine, desired_mob_count |-> 1, clients |-> {<<1, "a">>, <<2, "b">>}]}

Init ==
    /\ \E c \in Configs :
            /\ model = Model_new(c.map, c.desired_mob_count)
            /\ clients = c.clients
    /\ events = <<>>
    /\ eaten = {}
    /\ strikes = <<>>
    /\ NoFleet
    /\ NoUnit

\* A client is in the game when it is queued or one of the players is its
Present(m, c) ==
    \/ \E i \in 1..Len(m.spawning_players) : m.spawning_players[i] = c
    \/ \E id \in DOMAIN m.data.players.inner : m.data.players.inner[id].username = c[2]

\* A client that is not in the game joins it
AddClient ==
    /\ \E c \in clients :
            /\ ~Present(model, c)
            /\ model' = add_client(model, c[1], c[2])
    /\ UNCHANGED <<clients, events, eaten, strikes, fleetvars, unitvars>>

PlayerAction ==
    /\ \E id \in 0..model.data.players.max_id, action \in Action,
          tick \in {model.tick, model.tick + 1} :
            model' = player_action(model, id, action, tick)
    /\ UNCHANGED <<clients, events, eaten, strikes, fleetvars, unitvars>>

RemoveClient ==
    /\ \E id \in DOMAIN model.data.players.inner : model' = remove_client(model, id)
    /\ UNCHANGED <<clients, events, eaten, strikes, fleetvars, unitvars>>

SimulateTick ==
    /\ model.tick < MaxTick
    /\ \E r \in simulate_tick(model) :
            /\ model' = r.model
            /\ events' = r.events
            /\ eaten' = r.eaten
            /\ strikes' = r.strikes
    /\ UNCHANGED <<clients, fleetvars, unitvars>>

Next == AddClient \/ PlayerAction \/ RemoveClient \/ SimulateTick

Spec == Init /\ [][Next]_vars

(***************************************************************************)
(* The simulation over fifty ticks: one player on a two-cell map, so that  *)
(* the food respawn of tick 50 happens.                                    *)
(***************************************************************************)
\* A player spawn beside a fruit
MapFood == new_from_string(<< <<"P", ".">> >>)

InitFood ==
    /\ model = Model_new(MapFood, 0)
    /\ clients = {<<1, "a">>}
    /\ events = <<>>
    /\ eaten = {}
    /\ strikes = <<>>
    /\ NoFleet
    /\ NoUnit

SimulateTickFood ==
    /\ model.tick < MaxFoodTick
    /\ \E r \in simulate_tick(model) :
            /\ model' = r.model
            /\ events' = r.events
            /\ eaten' = r.eaten
            /\ strikes' = r.strikes
    /\ UNCHANGED <<clients, fleetvars, unitvars>>

NextFood == AddClient \/ PlayerAction \/ RemoveClient \/ SimulateTickFood

SpecFood == InitFood /\ [][NextFood]_vars

(***************************************************************************)
(* The fleet: clients, the competitor::Manager, the AuthenticationManager, *)
(* the GlobalManager with its games, and the spectator::Manager, joined by *)
(* their channels.  A handler that has to send waits for room in the       *)
(* channel, so it is taken when its messages fit.  The spectator::Manager  *)
(* only consumes: it is taken to have handled what a GlobalManager step    *)
(* sent it before the next step of any task.  The ScoreUpdate of a tick    *)
(* goes to the score task, which only writes to the database.              *)
(* A panic of any task ends the server (main.rs), after which nothing      *)
(* happens.                                                                *)
(***************************************************************************)
Names == <<"a", "b", "c", "d", "e", "f", "g", "h", "i">>

\* The users table with the first n users, all enabled
UsersTable(n) ==
    [username \in {Names[i] : i \in 1..n} |->
        [id |-> CHOOSE i \in 1..n : Names[i] = username,
         code |-> "code", enabled |-> TRUE, high_score |-> 0]]

\* A mob spawn above two player spawns
MapTrap == new_from_string(<< <<"M">>, <<"P">>, <<"P">> >>)
\* A free cell above a player spawn above a mob spawn
MapChase == new_from_string(<< <<" ">>, <<"P">>, <<"M">> >>)
\* One cell, a player spawn
MapCell == new_from_string(<< <<"P">> >>)

\* The actions a client sends in the fleet
FleetAction == {"Forward"}

NoSim ==
    /\ clients = {}
    /\ model = Model_new(MapCell, 0)
    /\ events = <<>>
    /\ eaten = {}
    /\ strikes = <<>>

InitFleetWith(map, users, order) ==
    /\ NoSim
    /\ NoUnit
    /\ db = UsersTable(users)
    /\ manager = GlobalManager_new(map)
    /\ rx = <<>>
    /\ competitor = Competitor_new
    /\ competitor_rx = <<>>
    /\ spectator = Spectator_new
    /\ view = EmptyMap
    /\ now = 0
    /\ arriving = order
    /\ crashed = FALSE
    /\ closed = {}
    /\ spectator_rx = <<>>
    /\ welcome = <<>>
    /\ broadcaster = <<>>
    /\ spectator_task = <<>>

Live == ~crashed

\* The listener accepts a connection
Accept(kept) ==
    /\ Live
    /\ Bucket_len(competitor.unauthenticated) < MaxConn
    /\ competitor' = handle_incoming_connection(competitor, MessageStream_new(kept))
    /\ UNCHANGED <<simvars, unitvars, watchvars, db, closed, manager, rx, competitor_rx,
                   spectator, view, now, arriving, crashed>>

IncomingConnection == Accept(FALSE)

\* The dropped streams whose history is kept
Kept(dropped) == {stream \in dropped : stream.kept}

\* An unauthenticated stream yields a message, and the task spawned for the
\* request it causes has looked the user up and sent its answer
Authenticate(temporary_id, msg, capacity) ==
    LET handled == handle_unauthenticated_message(competitor, temporary_id, msg)
        requests == handled.authentication_request_sender
        answer == IF requests = <<>> THEN [game_tx |-> <<>>, competitor_tx |-> <<>>]
                  ELSE authenticate_user(db, requests[1])
    IN  /\ Len(rx) + Len(answer.game_tx) <= MaxRx
        /\ Len(competitor_rx) + Len(answer.competitor_tx) <= capacity
        /\ competitor' = handled.competitor
        /\ rx' = rx \o answer.game_tx
        /\ competitor_rx' = competitor_rx \o answer.competitor_tx

\* Any user of the table signs in on any connection
UnauthenticatedMessage ==
    /\ Live
    /\ \E temporary_id \in DOMAIN competitor.unauthenticated.inner,
          username \in DOMAIN db :
            /\ ~competitor.unauthenticated.inner[temporary_id].metadata
            /\ Authenticate(temporary_id,
                            [well_formed |-> TRUE, username |-> username,
                             code |-> db[username].code],
                            FleetBacklog)
    /\ UNCHANGED <<simvars, unitvars, watchvars, db, closed, manager, spectator, view, now,
                   arriving, crashed>>

\* An in_game stream yields an action message for the current tick number
InGameMessage ==
    /\ Live
    /\ Len(rx) < MaxRx
    /\ \E user_id \in DOMAIN competitor.in_game.inner, action \in FleetAction,
          tick \in {now} :
            rx' = Append(rx, handle_ingame_message(user_id,
                                [action |-> action, tick |-> tick]))
    /\ UNCHANGED <<simvars, unitvars, watchvars, db, closed, manager, competitor,
                   competitor_rx, spectator, view, now, arriving, crashed>>

\* The peer of a stream closes or resets the connection
peer_goes(c, name, id) == [c EXCEPT ![name].inner[id].stream.peer_gone = TRUE]

\* An in_game stream ends, now or before, and the next poll_next finds it
InGameDisconnection ==
    /\ Live
    /\ Len(rx) < MaxRx
    /\ \E user_id \in DOMAIN competitor.in_game.inner :
         LET gone == peer_goes(competitor, "in_game", user_id) IN
            /\ user_id \in poll_next_disconnection(gone.in_game)
            /\ competitor' = ingame_disconnection(gone, user_id).competitor
            /\ rx' = rx \o ingame_disconnection(gone, user_id).tx
            /\ closed' = Kept(ingame_disconnection(gone, user_id).dropped)
    /\ UNCHANGED <<simvars, unitvars, watchvars, db, manager, competitor_rx, spectator, view,
                   now, arriving, crashed>>

\* The competitor::Manager receives an event
CompetitorRecv ==
    /\ Live
    /\ competitor_rx # <<>>
    /\ LET event == Head(competitor_rx) IN
        \E r \in IF event.type \in {"Authenticated", "BadAuthentication"}
                 THEN handle_authentication_event(competitor, event)
                 ELSE {Competitor_handle_game_event(competitor, event)} :
            /\ closed' = Kept(r.dropped)
            /\ IF r.panicked
               THEN crashed' = TRUE /\ UNCHANGED <<competitor, competitor_rx>>
               ELSE /\ competitor' = r.competitor
                    /\ competitor_rx' = Tail(competitor_rx)
                    /\ UNCHANGED crashed
    /\ UNCHANGED <<simvars, unitvars, watchvars, db, manager, rx, spectator, view, now, arriving>>

RECURSIVE ApplyBroadcasts(_, _, _)
ApplyBroadcasts(seen, messages, i) ==
    IF i > Len(messages) THEN seen
    ELSE ApplyBroadcasts(ApplyBroadcast(seen, messages[i]), messages, i + 1)

\* The spectator::Manager receives the events of spectator_tx one after the
\* other, and a spectator applies what is broadcast: acc is a set of
\* [spectator, view, panicked]
RECURSIVE SpectatorRecv(_, _, _)
SpectatorRecv(acc, spectator_tx, i) ==
    IF i > Len(spectator_tx) THEN acc
    ELSE SpectatorRecv(
            UNION {IF a.panicked THEN {a}
                   ELSE {IF r.panicked THEN [a EXCEPT !.panicked = TRUE]
                         ELSE [spectator |-> r.spectator,
                               view |-> ApplyBroadcasts(a.view, r.broadcaster, 1),
                               panicked |-> FALSE] :
                            r \in Spectator_handle_event(a.spectator, spectator_tx[i])} :
                   a \in acc},
            spectator_tx, i + 1)

\* What a GlobalManager handler leaves behind
Deliver(st, capacity) ==
    IF st.panicked
    THEN crashed' = TRUE /\ UNCHANGED <<manager, competitor_rx, spectator, view>>
    ELSE /\ Len(competitor_rx) + Len(st.competitor_tx) <= capacity
         /\ manager' = st.manager
         /\ competitor_rx' = competitor_rx \o st.competitor_tx
         /\ \E a \in SpectatorRecv({[spectator |-> spectator, view |-> view,
                                     panicked |-> FALSE]}, st.spectator_tx, 1) :
                /\ spectator' = a.spectator
                /\ view' = a.view
                /\ crashed' = a.panicked

\* The GlobalManager receives an event
GameRecv(capacity) ==
    /\ Live
    /\ rx # <<>>
    /\ \E st \in handle_incoming_event(manager, Head(rx)) : Deliver(st, capacity)
    /\ rx' = Tail(rx)
    /\ UNCHANGED <<simvars, unitvars, watchvars, db, closed, competitor, now, arriving>>

\* The tick interval fires; ticks without a game are not counted
TickGames(capacity, last_tick) ==
    /\ Live
    /\ now < last_tick
    /\ \E st \in tick_games(manager) : Deliver(st, capacity)
    /\ now' = IF Bucket_len(manager.games) = 0 THEN now ELSE now + 1
    /\ UNCHANGED <<simvars, unitvars, watchvars, db, closed, rx, competitor, arriving>>

InitFleet == InitFleetWith(MapTrap, FleetUsers, <<>>)

NextFleet ==
    \/ IncomingConnection
    \/ UnauthenticatedMessage
    \/ InGameMessage
    \/ InGameDisconnection
    \/ CompetitorRecv
    \/ GameRecv(FleetBacklog)
    \/ TickGames(FleetBacklog, MaxFleetTick)

SpecFleet == InitFleet /\ [][NextFleet]_vars

(***************************************************************************)
(* The fleet with a competitor::Manager that falls behind on the events    *)
(* sent to it: user a signs in, then b, then a twice more, over three      *)
(* ticks, and only a plays.  Here a client signs in as soon as it has      *)
(* connected, and the GlobalManager receives what the competitor::Manager  *)
(* sends it at once, so the channel into the GlobalManager is empty        *)
(* between steps.                                                          *)
(***************************************************************************)
\* The GlobalManager receives this event
GameRecvAtOnce(event, capacity) ==
    \E st \in handle_incoming_event(manager, event) : Deliver(st, capacity)

\* The next user to sign in connects and signs in
SignIn(capacity) ==
    /\ Live
    /\ arriving # <<>>
    /\ Bucket_len(competitor.unauthenticated) < MaxConn
    /\ LET temporary_id == minimum_available_id(competitor.unauthenticated)
           handled == handle_unauthenticated_message(
                        handle_incoming_connection(competitor,
                                                   MessageStream_new(FALSE)),
                        temporary_id,
                        [well_formed |-> TRUE, username |-> Head(arriving),
                         code |-> db[Head(arriving)].code])
           answer == authenticate_user(db, handled.authentication_request_sender[1])
       IN  /\ competitor' = handled.competitor
           /\ GameRecvAtOnce(answer.game_tx[1], capacity)
    /\ arriving' = Tail(arriving)
    /\ UNCHANGED <<simvars, unitvars, watchvars, db, closed, rx, now>>

\* The in_game stream of one of these users yields an action message for the
\* current tick number
Act(users, capacity) ==
    /\ Live
    /\ \E user_id \in DOMAIN competitor.in_game.inner \cap users, action \in FleetAction :
            GameRecvAtOnce(handle_ingame_message(user_id,
                                [action |-> action, tick |-> now]), capacity)
    /\ UNCHANGED <<simvars, unitvars, watchvars, db, closed, rx, competitor, now, arriving>>

\* An in_game stream ends
Leave(capacity) ==
    /\ Live
    /\ \E user_id \in DOMAIN competitor.in_game.inner :
         LET gone == peer_goes(competitor, "in_game", user_id) IN
            /\ user_id \in poll_next_disconnection(gone.in_game)
            /\ competitor' = ingame_disconnection(gone, user_id).competitor
            /\ closed' = Kept(ingame_disconnection(gone, user_id).dropped)
            /\ GameRecvAtOnce(ingame_disconnection(gone, user_id).tx[1], capacity)
    /\ UNCHANGED <<simvars, unitvars, watchvars, db, rx, now, arriving>>

InitStale == InitFleetWith(MapTrap, FleetUsers, <<"a", "b", "a", "a">>)

NextStale ==
    \/ SignIn(MaxBacklog)
    \/ Act({db["a"].id}, MaxBacklog)
    \/ Leave(MaxBacklog)
    \/ CompetitorRecv
    \/ TickGames(MaxBacklog, MaxStaleTick)

SpecStale == InitStale /\ [][NextStale]_vars

(***************************************************************************)
(* The fleet of one user on the map with a free cell, over three ticks: a  *)
(* player that walks away from a mob that follows it.                      *)
(***************************************************************************)
InitChase == InitFleetWith(MapChase, ChaseUsers, <<>>)

NextChase ==
    \/ IncomingConnection
    \/ UnauthenticatedMessage
    \/ InGameMessage
    \/ InGameDisconnection
    \/ CompetitorRecv
    \/ GameRecv(FleetBacklog)
    \/ TickGames(FleetBacklog, MaxChaseTick)

SpecChase == InitChase /\ [][NextChase]_vars

(***************************************************************************)
(* The fleet when one user more than a game takes signs in, on the map of  *)
(* one cell: the users sign in in the order of the users table.            *)
(***************************************************************************)
InitCrowd == InitFleetWith(MapCell, MAX_PLAYERS + 1, SubSeq(Names, 1, MAX_PLAYERS + 1))

NextCrowd ==
    \/ SignIn(MaxBacklog)
    \/ Act(DOMAIN competitor.in_game.inner, MaxBacklog)
    \/ Leave(MaxBacklog)
    \/ CompetitorRecv
    \/ TickGames(MaxBacklog, MaxCrowdTick)

SpecCrowd == InitCrowd /\ [][NextCrowd]_vars

(***************************************************************************)
(* The fleet of one user next to a mob, over three ticks, with the history *)
(* of what is written to each connection.                                  *)
(***************************************************************************)
InitSession == InitFleetWith(MapTrap, SessionUsers, <<>>)

NextSession ==
    \/ Accept(TRUE)
    \/ UnauthenticatedMessage
    \/ InGameMessage
    \/ InGameDisconnection
    \/ CompetitorRecv
    \/ GameRecv(FleetBacklog)
    \/ TickGames(FleetBacklog, MaxSessionTick)

SpecSession == InitSession /\ [][NextSession]_vars

(***************************************************************************)
(* The fleet on the map of one cell whose clients send any line before     *)
(* they are authenticated and go away at any time: user a is enabled, user *)
(* b is not, and there is no user z.                                       *)
(***************************************************************************)
GateLine ==
    {[well_formed |-> FALSE, username |-> "", code |-> ""],
     [well_formed |-> TRUE, username |-> "a", code |-> "code"],
     [well_formed |-> TRUE, username |-> "a", code |-> "open"],
     [well_formed |-> TRUE, username |-> "b", code |-> "code"],
     [well_formed |-> TRUE, username |-> "z", code |-> "code"]}

InitGate ==
    /\ NoSim
    /\ NoUnit
    /\ db = [UsersTable(2) EXCEPT !["b"].enabled = FALSE]
    /\ manager = GlobalManager_new(MapCell)
    /\ rx = <<>>
    /\ competitor = Competitor_new
    /\ competitor_rx = <<>>
    /\ spectator = Spectator_new
    /\ view = EmptyMap
    /\ now = 0
    /\ arriving = <<>>
    /\ crashed = FALSE
    /\ closed = {}
    /\ spectator_rx = <<>>
    /\ welcome = <<>>
    /\ broadcaster = <<>>
    /\ spectator_task = <<>>

\* An unauthenticated stream yields a line, whether or not its
\* authentication is pending
UnauthenticatedLine ==
    /\ Live
    /\ \E temporary_id \in DOMAIN competitor.unauthenticated.inner,
          msg \in GateLine :
            /\ ~competitor.unauthenticated.inner[temporary_id].stream.peer_gone
            /\ Authenticate(temporary_id, msg, FleetBacklog)
    /\ UNCHANGED <<simvars, unitvars, watchvars, db, closed, manager, spectator, view, now,
                   arriving, crashed>>

\* The peer of an unauthenticated or spawning stream goes away
PeerGone ==
    /\ Live
    /\ \E name \in {"unauthenticated", "spawning"} :
        \E id \in DOMAIN competitor[name].inner :
            /\ ~competitor[name].inner[id].stream.peer_gone
            /\ competitor' = peer_goes(competitor, name, id)
    /\ UNCHANGED <<simvars, unitvars, watchvars, db, closed, manager, rx, competitor_rx,
                   spectator, view, now, arriving, crashed>>

\* poll_next of the unauthenticated bucket yields a Disconnection
UnauthenticatedDisconnection ==
    /\ Live
    /\ \E temporary_id \in poll_next_disconnection(competitor.unauthenticated) :
         LET r == unauthenticated_disconnection(competitor, temporary_id) IN
            /\ closed' = Kept(r.dropped)
            /\ IF r.panicked
               THEN crashed' = TRUE /\ UNCHANGED competitor
               ELSE competitor' = r.competitor /\ UNCHANGED crashed
    /\ UNCHANGED <<simvars, unitvars, watchvars, db, manager, rx, competitor_rx, spectator,
                   view, now, arriving>>

NextGate ==
    \/ Accept(TRUE)
    \/ UnauthenticatedLine
    \/ PeerGone
    \/ UnauthenticatedDisconnection
    \/ InGameDisconnection
    \/ CompetitorRecv
    \/ GameRecv(FleetBacklog)
    \/ TickGames(FleetBacklog, MaxGateTick)

SpecGate == InitGate /\ [][NextGate]_vars

(***************************************************************************)
(* The fleet of one user next to a mob, over two ticks, where the          *)
(* spectator::Manager receives its events one by one and accepts           *)
(* spectators in between.                                                  *)
(***************************************************************************)
InitWatch == InitFleetWith(MapTrap, WatchUsers, <<>>)

\* What a GlobalManager handler leaves behind, its events for the
\* spectator::Manager in the channel
Enqueue(st, capacity) ==
    IF st.panicked
    THEN crashed' = TRUE /\ UNCHANGED <<manager, competitor_rx, spectator_rx>>
    ELSE /\ Len(competitor_rx) + Len(st.competitor_tx) <= capacity
         /\ manager' = st.manager
         /\ competitor_rx' = competitor_rx \o st.competitor_tx
         /\ spectator_rx' = spectator_rx \o st.spectator_tx
         /\ UNCHANGED crashed

GameRecvQueued(capacity) ==
    /\ Live
    /\ rx # <<>>
    /\ \E st \in handle_incoming_event(manager, Head(rx)) : Enqueue(st, capacity)
    /\ rx' = Tail(rx)
    /\ UNCHANGED <<simvars, unitvars, db, closed, competitor, spectator, view, now,
                   arriving, welcome, broadcaster, spectator_task>>

TickGamesQueued(capacity, last_tick) ==
    /\ Live
    /\ now < last_tick
    /\ \E st \in tick_games(manager) : Enqueue(st, capacity)
    /\ now' = IF Bucket_len(manager.games) = 0 THEN now ELSE now + 1
    /\ UNCHANGED <<simvars, unitvars, db, closed, rx, competitor, spectator, view,
                   arriving, welcome, broadcaster, spectator_task>>

\* The spectator::Manager receives an event
SpectatorManagerRecv ==
    /\ Live
    /\ spectator_rx # <<>>
    /\ \E a \in SpectatorRecv({[spectator |-> spectator, view |-> view,
                                panicked |-> FALSE]}, <<Head(spectator_rx)>>, 1) :
            /\ spectator' = a.spectator
            /\ view' = a.view
            /\ crashed' = a.panicked
    /\ spectator_rx' = Tail(spectator_rx)
    /\ UNCHANGED <<simvars, unitvars, db, closed, manager, rx, competitor,
                   competitor_rx, now, arriving, welcome, broadcaster, spectator_task>>

\* The spectator::Manager accepts a spectator, whose task starts
IncomingWebsocket ==
    /\ Live
    /\ \E started \in Spectator_start(spectator.games) : welcome' = <<started>>
    /\ UNCHANGED <<simvars, unitvars, db, closed, manager, rx, competitor,
                   competitor_rx, spectator, view, now, arriving, crashed,
                   spectator_rx, broadcaster, spectator_task>>

NextWatch ==
    \/ IncomingConnection
    \/ UnauthenticatedMessage
    \/ InGameMessage
    \/ CompetitorRecv
    \/ GameRecvQueued(FleetBacklog)
    \/ TickGamesQueued(FleetBacklog, MaxWatchTick)
    \/ SpectatorManagerRecv
    \/ IncomingWebsocket

SpecWatch == InitWatch /\ [][NextWatch]_vars

(***************************************************************************)
(* The fleet of one user who signs in, alone on one cell, with the         *)
(* broadcast channel of the spectator::Manager and one Spectator task that *)
(* receives from it at its own pace.                                       *)
(***************************************************************************)

\* broadcast::channel(5): the events the channel retains for a Receiver
BROADCAST_CAPACITY == 5

\* A variant of the receive loop that goes on after a receive error: the
\* Receiver resumes at the oldest event the channel retains
Spectator_recv_resuming(task, sent) ==
    IF Len(sent) - task.next > BROADCAST_CAPACITY
    THEN [task EXCEPT !.next = Len(sent) - BROADCAST_CAPACITY, !.lagged = TRUE]
    ELSE [task EXCEPT !.next = @ + 1,
                      !.received = IF task.peer_gone THEN @
                                   ELSE Append(@, sent[task.next + 1])]

\* The recv_event branch of the receive loop, sent the events sent on the
\* channel so far: a Receiver more than the capacity behind gets
\* Err(Lagged) and the loop ends, which closes the socket; otherwise
\* handle_event writes the event to the socket (the filter is AllGames), and
\* a failed write changes nothing
Spectator_recv(task, sent) ==
    IF Len(sent) - task.next > BROADCAST_CAPACITY
    THEN [task EXCEPT !.status = "closed", !.lagged = TRUE]
    ELSE [task EXCEPT !.next = @ + 1,
                      !.received = IF task.peer_gone THEN @
                                   ELSE Append(@, sent[task.next + 1])]

InitLag == InitFleetWith(MapCell, WatchUsers, SubSeq(Names, 1, WatchUsers))

\* A user connects and signs in, the GlobalManager handles Authenticated,
\* and its events for the spectator::Manager are in the channel
SignInQueued(capacity) ==
    /\ Live
    /\ arriving # <<>>
    /\ Bucket_len(competitor.unauthenticated) < MaxConn
    /\ LET temporary_id == minimum_available_id(competitor.unauthenticated)
           handled == handle_unauthenticated_message(
                        handle_incoming_connection(competitor,
                                                   MessageStream_new(FALSE)),
                        temporary_id,
                        [well_formed |-> TRUE, username |-> Head(arriving),
                         code |-> db[Head(arriving)].code])
           answer == authenticate_user(db, handled.authentication_request_sender[1])
       IN  /\ competitor' = handled.competitor
           /\ \E st \in handle_incoming_event(manager, answer.game_tx[1]) :
                    Enqueue(st, capacity)
    /\ arriving' = Tail(arriving)
    /\ UNCHANGED <<simvars, unitvars, db, closed, rx, now, spectator, view, welcome,
                   broadcaster, spectator_task>>

\* The spectator::Manager receives an event and broadcasts
SpectatorManagerBroadcasts ==
    /\ Live
    /\ spectator_rx # <<>>
    /\ \E r \in Spectator_handle_event(spectator, Head(spectator_rx)) :
            IF r.panicked
            THEN crashed' = TRUE /\ UNCHANGED <<spectator, view, broadcaster>>
            ELSE /\ spectator' = r.spectator
                 /\ view' = ApplyBroadcasts(view, r.broadcaster, 1)
                 /\ broadcaster' = broadcaster \o r.broadcaster
                 /\ UNCHANGED crashed
    /\ spectator_rx' = Tail(spectator_rx)
    /\ UNCHANGED <<simvars, unitvars, db, closed, manager, rx, competitor,
                   competitor_rx, now, arriving, welcome, spectator_task>>

\* The score_update_interval fires: send_score_update broadcasts the
\* leaderboard
SendScoreUpdate ==
    /\ Live
    /\ Cardinality({i \in DOMAIN broadcaster :
                        broadcaster[i].type = "LeaderboardUpdate"}) < MaxLeaderboard
    /\ broadcaster' = Append(broadcaster, [type |-> "LeaderboardUpdate"])
    /\ UNCHANGED <<simvars, unitvars, db, closed, manager, rx, competitor,
                   competitor_rx, spectator, view, now, arriving, crashed,
                   spectator_rx, welcome, spectator_task>>

\* handle_incoming_websocket: the task gets a Receiver subscribed now and a
\* clone of the games as they are now
IncomingWebsocketSubscribed ==
    /\ Live
    /\ spectator_task = <<>>
    /\ spectator_task' = <<[status |-> "handshake",
                            games |-> spectator.games,
                            subscribed |-> Len(broadcaster),
                            next |-> Len(broadcaster),
                            initial |-> <<>>,
                            received |-> <<>>,
                            lagged |-> FALSE,
                            peer_gone |-> FALSE]>>
    /\ UNCHANGED <<simvars, unitvars, db, closed, manager, rx, competitor,
                   competitor_rx, spectator, view, now, arriving, crashed,
                   spectator_rx, welcome, broadcaster>>

\* The environment: the peer of the websocket goes away
SpectatorPeerLeaves ==
    /\ Live
    /\ spectator_task # <<>>
    /\ spectator_task[1].status # "closed"
    /\ ~spectator_task[1].peer_gone
    /\ spectator_task' = <<[spectator_task[1] EXCEPT !.peer_gone = TRUE]>>
    /\ UNCHANGED <<simvars, unitvars, db, closed, manager, rx, competitor,
                   competitor_rx, spectator, view, now, arriving, crashed,
                   spectator_rx, welcome, broadcaster>>

\* Spectator::start up to its loop: the handshake, which fails if the peer
\* is gone, then an InitialMessage for each game of the clone; the task ends
\* where building one panics
SpectatorHandshake ==
    /\ Live
    /\ spectator_task # <<>>
    /\ spectator_task[1].status = "handshake"
    /\ \E started \in Spectator_start(spectator_task[1].games) :
            spectator_task' =
                <<IF spectator_task[1].peer_gone \/ started.panicked
                  THEN [spectator_task[1] EXCEPT !.status = "closed"]
                  ELSE [spectator_task[1] EXCEPT !.status = "open",
                                                 !.initial = started.sent]>>
    /\ UNCHANGED <<simvars, unitvars, db, closed, manager, rx, competitor,
                   competitor_rx, spectator, view, now, arriving, crashed,
                   spectator_rx, welcome, broadcaster>>

\* The loop of the task, recv_event branch
SpectatorRecvEvent ==
    /\ Live
    /\ spectator_task # <<>>
    /\ spectator_task[1].status = "open"
    /\ spectator_task[1].next < Len(broadcaster)
    /\ spectator_task' = <<Spectator_recv(spectator_task[1], broadcaster)>>
    /\ UNCHANGED <<simvars, unitvars, db, closed, manager, rx, competitor,
                   competitor_rx, spectator, view, now, arriving, crashed,
                   spectator_rx, welcome, broadcaster>>

\* The loop of the task, ws_event branch: the socket of a peer that is gone
\* yields None or an error and the loop ends; a Text message from the peer
\* ends the task in handle_message (todo!()), which drops the socket
SpectatorSocketNext ==
    /\ Live
    /\ spectator_task # <<>>
    /\ spectator_task[1].status = "open"
    /\ \E ws_event \in {"Text", "None"} :
            /\ ws_event = "None" => spectator_task[1].peer_gone
            /\ ws_event = "Text" => ~spectator_task[1].peer_gone
            /\ spectator_task' = <<[spectator_task[1] EXCEPT !.status = "closed"]>>
    /\ UNCHANGED <<simvars, unitvars, db, closed, manager, rx, competitor,
                   competitor_rx, spectator, view, now, arriving, crashed,
                   spectator_rx, welcome, broadcaster>>

NextLag ==
    \/ SignInQueued(FleetBacklog)
    \/ CompetitorRecv
    \/ (spectator_rx = <<>> /\ competitor_rx = <<>>
            /\ TickGamesQueued(FleetBacklog, MaxLagTick))
    \/ SpectatorManagerBroadcasts
    \/ SendScoreUpdate
    \/ IncomingWebsocketSubscribed
    \/ SpectatorPeerLeaves
    \/ SpectatorHandshake
    \/ SpectatorRecvEvent
    \/ SpectatorSocketNext

SpecLag == InitLag /\ [][NextLag]_vars

(***************************************************************************)
(* The fleet of two users next to a mob, over two ticks, where the         *)
(* competitor::Manager falls behind and the GlobalManager receives its     *)
(* events from the channel: the users sign in one after the other, each as *)
(* soon as it has connected and while the channel is empty.                *)
(***************************************************************************)
InitRace == InitFleetWith(MapTrap, RaceUsers, SubSeq(Names, 1, RaceUsers))

NextRace ==
    \/ (rx = <<>> /\ SignIn(MaxBacklog))
    \/ InGameMessage
    \/ InGameDisconnection
    \/ CompetitorRecv
    \/ GameRecv(MaxBacklog)
    \/ TickGames(MaxBacklog, MaxRaceTick)

SpecRace == InitRace /\ [][NextRace]_vars

(***************************************************************************)
(* The fleet on the map of one cell where the lookup of a user can fail:   *)
(* user a is enabled, user b is not, and there is no user z.  The          *)
(* competitor::Manager and the GlobalManager are tasks of the runtime: an  *)
(* event in the channel of either is received in the end.                  *)
(***************************************************************************)
\* An unauthenticated stream yields a line, and the task spawned for the
\* request it causes has ended
UnauthenticatedLookup ==
    /\ Live
    /\ \E temporary_id \in DOMAIN competitor.unauthenticated.inner, msg \in GateLine :
        LET handled == handle_unauthenticated_message(competitor, temporary_id, msg)
            requests == handled.authentication_request_sender
        IN  /\ requests # <<>>
            /\ \E answer \in authenticate_user_task(db, requests[1]) :
                /\ Len(rx) + Len(answer.game_tx) <= MaxRx
                /\ Len(competitor_rx) + Len(answer.competitor_tx) <= FleetBacklog
                /\ competitor' = handled.competitor
                /\ rx' = rx \o answer.game_tx
                /\ competitor_rx' = competitor_rx \o answer.competitor_tx
    /\ UNCHANGED <<simvars, unitvars, watchvars, db, closed, manager, spectator, view, now,
                   arriving, crashed>>

NextLookup ==
    \/ IncomingConnection
    \/ UnauthenticatedLookup
    \/ CompetitorRecv
    \/ GameRecv(FleetBacklog)
    \/ TickGames(FleetBacklog, MaxLookupTick)

SpecLookup == InitGate /\ [][NextLookup]_vars

SpecLookupFair ==
    /\ SpecLookup
    /\ WF_vars(CompetitorRecv)
    /\ WF_vars(GameRecv(FleetBacklog))

\* ---------------------------------------------------------------------------
\* The fleet with the ScoreUpdates it has sent
\* ---------------------------------------------------------------------------

\* The pairs of the ScoreUpdates in the sequence sent
RECURSIVE ScoresSent(_)
ScoresSent(sent) ==
    IF sent = <<>> THEN {}
    ELSE Head(sent).player_scores \cup ScoresSent(Tail(sent))

\* tick_games, and what it sends on score_tx
TickGamesScored ==
    /\ Live
    /\ now < MaxScoreTick
    /\ \E st \in tick_games(manager) :
            /\ Deliver(st, MaxBacklog)
            /\ score_updates' = IF st.panicked THEN score_updates
                                ELSE score_updates \cup ScoresSent(st.score_tx)
    /\ now' = IF Bucket_len(manager.games) = 0 THEN now ELSE now + 1
    /\ UNCHANGED <<simvars, bucketvars, lookup, streamvars, tick_message, watchvars,
                   db, closed, rx, competitor, arriving>>

InitScore == InitFleetWith(MapTrap, FleetUsers, SubSeq(Names, 1, FleetUsers))

NextScore ==
    \/ (rx = <<>> /\ SignIn(MaxBacklog))
    \/ InGameMessage
    \/ CompetitorRecv
    \/ GameRecv(MaxBacklog)
    \/ TickGamesScored

SpecScore == InitScore /\ [][NextScore]_vars

(***************************************************************************)
(* A MessageStream on its own: the peer sends up to MaxWire bytes and      *)
(* closes, and each poll_read delivers any number of the unread bytes that *)
(* the buffer has room for.                                                *)
(***************************************************************************)
Byte == {"x", "y", NewLine}

InitStream ==
    /\ NoSim
    /\ NoFleet
    /\ NoUnit

\* The peer sends a byte
PeerSend ==
    /\ ~socket.closed
    /\ Len(socket.sent) < MaxWire
    /\ \E byte \in Byte :
            socket' = [socket EXCEPT !.unread = Append(@, byte),
                                     !.sent = Append(@, byte)]
    /\ UNCHANGED <<simvars, fleetvars, bucketvars, lookup, message_stream, yielded, tick_message, score_updates>>

\* The peer closes the connection
PeerClose ==
    /\ ~socket.closed
    /\ socket' = [socket EXCEPT !.closed = TRUE]
    /\ UNCHANGED <<simvars, fleetvars, bucketvars, lookup, message_stream, yielded, tick_message, score_updates>>

\* What poll_read can do: read some of the unread bytes, as many as the
\* buffer has room for at most; find the end of the stream; or be Pending
PollRead(ms) ==
    LET room == IF Len(ms.buf) = BufSize THEN BufSize ELSE BufSize - Len(ms.buf) IN
    IF socket.unread # <<>>
    THEN {[kind |-> "Ready", bytes |-> SubSeq(socket.unread, 1, n)] :
                n \in 1..(IF Len(socket.unread) < room THEN Len(socket.unread)
                          ELSE room)}
    ELSE IF socket.closed THEN {[kind |-> "Ready", bytes |-> <<>>]}
    ELSE {[kind |-> "Pending", bytes |-> <<>>]}

\* The StreamMapBucket polls the stream
PollNext ==
    /\ \E read \in PollRead(message_stream) :
         LET r == MessageStream_poll_next(message_stream, read) IN
            /\ message_stream' = r.message_stream
            /\ yielded' = yielded \o r.item
            /\ socket' = IF r.polled
                         THEN [socket EXCEPT !.unread =
                                    SubSeq(@, Len(read.bytes) + 1, Len(@))]
                         ELSE socket
    /\ UNCHANGED <<simvars, fleetvars, bucketvars, lookup, tick_message, score_updates>>

NextStream == PeerSend \/ PeerClose \/ PollNext

SpecStream == InitStream /\ [][NextStream]_vars

(***************************************************************************)
(* The tick messages of a game on a map of three by three cells with a     *)
(* wall, a fruit and a power pill and no spawn points, so that players and *)
(* the mob spawn on any free cell: each tick's snapshot is made into a     *)
(* tick message for each of its players, as process_tick of the            *)
(* competitor::Manager does with the snapshot of a ProcessTick.            *)
(***************************************************************************)
MapView == new_from_string(<< <<".", "X", " ">>,
                              <<" ", " ", "|">>,
                              <<" ", " ", " ">> >>)

ViewAction == {"TurnLeft", "TurnRight"}

\* Two players and no mob, or one player and a mob
ViewConfigs ==
    {[desired_mob_count |-> 0, clients |-> {<<1, "a">>, <<2, "b">>}],
     [desired_mob_count |-> 1, clients |-> {<<1, "a">>}]}

InitView ==
    /\ \E c \in ViewConfigs :
            /\ model = Model_new(MapView, c.desired_mob_count)
            /\ clients = c.clients
    /\ events = <<>>
    /\ eaten = {}
    /\ strikes = <<>>
    /\ NoFleet
    /\ NoUnit

\* A player sends an action to turn for the current tick
PlayerTurns ==
    /\ \E id \in DOMAIN model.data.players.inner, action \in ViewAction :
            /\ model.data.players.inner[id].next_action = "None"
            /\ model' = player_action(model, id, action, model.tick)
    /\ UNCHANGED <<clients, events, eaten, strikes, fleetvars, unitvars>>

\* A tick, and the tick messages made from its snapshot
SimulateTickView ==
    /\ model.tick < (IF model.desired_mob_count = 0 THEN MaxViewTick
                     ELSE MaxViewMobTick)
    /\ \E r \in simulate_tick(model) :
            /\ model' = r.model
            /\ events' = r.events
            /\ eaten' = r.eaten
            /\ strikes' = r.strikes
            /\ tick_message' =
                <<[game_data |-> r.model.data,
                   messages |-> [player_id \in DOMAIN r.model.data.players.inner |->
                                    create_tick_message(r.model.data, player_id,
                                                        r.model.tick)]]>>
    /\ UNCHANGED <<clients, fleetvars, bucketvars, lookup, streamvars, score_updates>>

NextView == AddClient \/ PlayerTurns \/ SimulateTickView

SpecView == InitView /\ [][NextView]_vars

\* ---------------------------------------------------------------------------
\* A game in which a player holding a power pill meets another head-on
\* ---------------------------------------------------------------------------

\* No spawn points (both spawn policies Random): a power pill, a free tile
\* and a fruit in one column
MapDuel == new_from_string(<< <<"|">>, <<" ">>, <<".">> >>)

\* The actions the client of the first user sends; the second sends none
DuelAction == {"Forward", "TurnRight", "Eat"}

InitDuel ==
    /\ model = Model_new(MapDuel, 0)
    /\ clients = {<<1, "a">>, <<2, "b">>}
    /\ events = <<>>
    /\ eaten = {}
    /\ strikes = <<>>
    /\ NoFleet
    /\ NoUnit

PlayerDuels ==
    /\ \E id \in DOMAIN model.data.players.inner, action \in DuelAction :
            /\ model.data.players.inner[id].username = "a"
            /\ model.data.players.inner[id].next_action = "None"
            /\ model' = player_action(model, id, action, model.tick)
    /\ UNCHANGED <<clients, events, eaten, strikes, fleetvars, unitvars>>

SimulateTickDuel ==
    /\ model.tick < MaxDuelTick
    /\ \E r \in simulate_tick(model) :
            /\ model' = r.model
            /\ events' = r.events
            /\ eaten' = r.eaten
            /\ strikes' = r.strikes
    /\ UNCHANGED <<clients, fleetvars, unitvars>>

NextDuel == AddClient \/ PlayerDuels \/ SimulateTickDuel

SpecDuel == InitDuel /\ [][NextDuel]_vars

(***************************************************************************)
(* A Bucket on its own under add, insert and remove.                       *)
(***************************************************************************)
BucketItem == {"x", "y"}

InitBucket ==
    /\ NoSim
    /\ NoFleet
    /\ NoUnit

BucketAdd ==
    /\ bucket.max_id <= MaxBucketId
    /\ \E item \in BucketItem :
            /\ bucket' = Bucket_add(bucket, item)
            /\ returned' = [op |-> "add", id |-> minimum_available_id(bucket),
                            before |-> bucket]
    /\ UNCHANGED <<simvars, fleetvars, lookup, streamvars, tick_message, score_updates>>

BucketInsert ==
    /\ \E id \in 0..MaxBucketId, item \in BucketItem :
            /\ bucket' = Bucket_insert(bucket, id, item)
            /\ returned' = [op |-> "insert", id |-> id, before |-> bucket]
    /\ UNCHANGED <<simvars, fleetvars, lookup, streamvars, tick_message, score_updates>>

BucketRemove ==
    /\ \E id \in 0..MaxBucketId :
            /\ bucket' = Bucket_remove(bucket, id)
            /\ returned' = [op |-> "remove", id |-> id, before |-> bucket]
    /\ UNCHANGED <<simvars, fleetvars, lookup, streamvars, tick_message, score_updates>>

NextBucket == BucketAdd \/ BucketInsert \/ BucketRemove

SpecBucket == InitBucket /\ [][NextBucket]_vars

(***************************************************************************)
(* The AuthenticationManager on its own: any users table of two usernames, *)
(* and any request for one of them or for a third.                         *)
(***************************************************************************)
AuthCode == {"code", "open"}
AuthUsername == {"a", "b"}
AuthRow(username) ==
    {[id |-> IF username = "a" THEN 1 ELSE 2, code |-> code, enabled |-> enabled,
      high_score |-> 0] : code \in AuthCode, enabled \in BOOLEAN}
AuthTable ==
    UNION {[present -> UNION {AuthRow(username) : username \in present}] :
                present \in SUBSET AuthUsername}
AuthTables ==
    {table \in AuthTable : \A username \in DOMAIN table :
                                table[username] \in AuthRow(username)}
AuthRequest ==
    [username : AuthUsername \cup {"c"}, code : AuthCode,
     temporary_id : 0..(MaxConn - 1)]

InitAuth ==
    /\ NoSim
    /\ NoUnit
    /\ db \in AuthTables
    /\ manager = GlobalManager_new(new_from_string(<< <<" ">> >>))
    /\ rx = <<>>
    /\ competitor = Competitor_new
    /\ competitor_rx = <<>>
    /\ spectator = Spectator_new
    /\ view = EmptyMap
    /\ now = 0
    /\ arriving = <<>>
    /\ crashed = FALSE
    /\ closed = {}
    /\ spectator_rx = <<>>
    /\ welcome = <<>>
    /\ broadcaster = <<>>
    /\ spectator_task = <<>>

\* The task spawned for a request looks the user up and sends its answer
AuthenticateUser ==
    /\ \E request \in AuthRequest :
            lookup' = <<[request |-> request] @@ authenticate_user(db, request)>>
    /\ UNCHANGED <<simvars, fleetvars, bucketvars, streamvars, tick_message, score_updates>>

NextAuth == AuthenticateUser

SpecAuth == InitAuth /\ [][NextAuth]_vars

(***************************************************************************)
(* Properties of the simulation                                            *)
(***************************************************************************)
data == model.data
players == data.players.inner
mobs == data.mobs.inner
StrikeIndex == 1..Len(strikes)
EventIndex == 1..Len(events)

\* The number of PlayerDied events of the last tick for this player id
DeathCount(id) ==
    Cardinality({i \in EventIndex :
                    events[i].type = "PlayerDied" /\ events[i].player_id = id})

\* C1: after any sequence of add_client, player_action, remove_client and
\* simulate_tick the entity grid and the buckets agree: every player and mob
\* of a bucket is referenced by exactly the grid cell at its stored position,
\* with its kind and id, and every reference in the grid is to an entity that
\* is in its bucket and alive.
C1_GridAgreesWithBuckets ==
    /\ \A id \in DOMAIN players :
            /\ players[id].pos \in Positions(data.map)
            /\ \A p \in Positions(data.map) :
                    data.entities[p] = new_player(id) <=> p = players[id].pos
    /\ \A id \in DOMAIN mobs :
            /\ mobs[id].pos \in Positions(data.map)
            /\ \A p \in Positions(data.map) :
                    data.entities[p] = new_mob(id) <=> p = mobs[id].pos
    /\ \A p \in Positions(data.map) :
            /\ data.entities[p].entity_type = "Player" =>
                    /\ data.entities[p].index \in DOMAIN players
                    /\ ~Player_died(players[data.entities[p].index])
            /\ data.entities[p].entity_type = "Mob" =>
                    /\ data.entities[p].index \in DOMAIN mobs
                    /\ ~mobs[data.entities[p].index].is_dead

\* C1 witness: a tick in which a player moved and a player or mob died has
\* ended with players and a mob or a second player on the grid
C1_Witness ==
    /\ \E i \in StrikeIndex : strikes[i].pos_after # strikes[i].src
    /\ \E i \in EventIndex : events[i].type = "PlayerDied"
    /\ DOMAIN players # {}

\* C6: when attack_square targets a cell occupied by a player whose facing is
\* the reverse of the attack direction, then immediately afterwards both
\* players have health 0 and both their cells are empty, and the sweep of the
\* same tick removes both from the bucket (an id found there afterwards is a
\* player spawned after the sweep) and emits exactly one PlayerDied for each.
C6_HeadOnKillsBoth ==
    \A i \in StrikeIndex :
        strikes[i].head_on =>
            /\ strikes[i].health_after = 0
            /\ strikes[i].target_health_after = 0
            /\ strikes[i].src_after = NoEntity
            /\ strikes[i].dest_after = NoEntity
            /\ \A id \in {strikes[i].attacker, strikes[i].target.index} :
                    /\ DeathCount(id) = 1
                    /\ id \in DOMAIN players =>
                            \E j \in EventIndex :
                                /\ events[j].type = "PlayerSpawned"
                                /\ events[j].id = id

\* C6 witness: the last tick had an attack_square onto a player facing the
\* attacker
C6_Witness ==
    \E i \in StrikeIndex :
        /\ strikes[i].head_on
        /\ strikes[i].target.index # strikes[i].attacker

\* C7 as stated: after every tick no cell holds both an entity and food
C7_NoFoodUnderEntity ==
    \A p \in Positions(data.map) : data.entities[p] = NoEntity \/ data.food[p] = "None"

\* C7 amended: a cell a player's attack_square has just moved the player onto
\* holds no food (spawning, a mob's advance and the food respawn can leave an
\* entity and food on one cell)
C7_PlayerMoveConsumesFood ==
    \A i \in StrikeIndex :
        strikes[i].pos_after # strikes[i].src => strikes[i].food_at_dest_after = "None"

\* C7 witness: the last tick had a player move onto a cell that held food
C7_Witness ==
    \E i \in StrikeIndex :
        /\ strikes[i].pos_after # strikes[i].src
        /\ strikes[i].food_at_dest # "None"

\* C8: after every tick every entity referenced by the grid stands on a Land
\* base tile
C8_EntitiesOnLand ==
    \A p \in Positions(data.map) :
        data.entities[p] # NoEntity => data.map.base_tile[p] = "Land"

\* C8 witness: the last tick had a player's attack_square onto a cell of the
\* map that is not Land, on a map whose spawn policy is Random
C8_Witness ==
    /\ data.map.player_spawn.kind = "Random"
    /\ \E i \in StrikeIndex :
        /\ strikes[i].dest # NoPos
        /\ data.map.base_tile[strikes[i].dest] # "Land"
        /\ strikes[i].attacker \in DOMAIN players

\* C9: every player that has next_action set when simulate_tick starts and is
\* still in the player bucket when it ends has next_action = None at the end
C9_ActionNotCarriedOver ==
    [][model'.tick = model.tick + 1 =>
        \A id \in DOMAIN model.data.players.inner :
            (/\ model.data.players.inner[id].next_action # "None"
             /\ id \in DOMAIN model'.data.players.inner)
                => model'.data.players.inner[id].next_action = "None"]_vars

\* C9 witness: a tick has ended whose Forward action was taken from a player
\* that is still in the bucket
C9_Witness ==
    \E i \in StrikeIndex :
        /\ ~strikes[i].using_powerpill
        /\ strikes[i].attacker \in DOMAIN players
        /\ strikes[i].health_after > 0
        /\ players[strikes[i].attacker].next_action = "None"

\* C10 as stated: at the end of every tick t with t % 50 = 0 every position
\* where the default food layout is Some(f) has food Some(f)
C10_FoodRestored ==
    (model.tick > 0 /\ model.tick % FOOD_RESPAWN_PERIOD = 0) =>
        \A p \in Positions(data.map) :
            data.map.default_food_locations[p] # "None" =>
                data.food[p] = data.map.default_food_locations[p]

\* C10 amended: ... unless a player ate from that position during tick t
C10_FoodRestoredUnlessEaten ==
    (model.tick > 0 /\ model.tick % FOOD_RESPAWN_PERIOD = 0) =>
        \A p \in Positions(data.map) :
            (data.map.default_food_locations[p] # "None" /\ p \notin eaten) =>
                data.food[p] = data.map.default_food_locations[p]

\* C10 witness: tick 50 has ended, the fruit was eaten in an earlier tick and
\* is back
C10_Witness ==
    /\ model.tick = FOOD_RESPAWN_PERIOD
    /\ eaten = {}
    /\ \E id \in DOMAIN players : players[id].score >= FRUIT_SCORE
    /\ data.food = data.map.default_food_locations


\* The Model after player_action has been called for the current tick with
\* each (player, action) pair of `actions`, in the order `arrival`
RECURSIVE Submitted(_, _, _, _)
Submitted(m, actions, arrival, i) ==
    IF i > Len(arrival) THEN m
    ELSE Submitted(player_action(m, arrival[i], actions[arrival[i]], m.tick),
                   actions, arrival, i + 1)

\* C23: the outcome of a tick does not depend on the order in which the
\* players' actions arrived: from one state, when the same pairs (player,
\* action), one for each player of any set of players, are submitted for the
\* current tick in two orders, simulate_tick has the same outcomes (GameData
\* and event sequence) for the same random choices.  Equal Models have equal
\* outcomes, so the outcomes are only computed where the Models differ, and
\* every order is compared with one of them.
C23_ArrivalOrderIrrelevant ==
    \A acting \in SUBSET DOMAIN players :
        \A actions \in [acting -> Action] :
            LET first == CHOOSE arrival \in Orders(acting) : TRUE
                one == Submitted(model, actions, first, 1)
            IN  \A second \in Orders(acting) \ {first} :
                    LET other == Submitted(model, actions, second, 1)
                    IN  \/ one = other
                        \/ simulate_tick(one) = simulate_tick(other)

\* C23's case: two players have both sent an action for the current tick,
\* and the actions differ
C23_Witness ==
    /\ model.waiting_players = 0
    /\ \E a \in DOMAIN players, b \in DOMAIN players :
        /\ a # b
        /\ players[a].next_action = "Forward"
        /\ players[b].next_action = "TurnLeft"

\* The place of an event's type in the order of simulate_tick
EventRank(event) ==
    CASE event.type = "PlayerDied" -> 1
      [] event.type = "PlayerSpawned" -> 2
      [] event.type = "ProcessTick" -> 3

\* The events of the last tick are in the order of simulate_tick
EventsInOrder ==
    events # <<>> =>
        /\ events[Len(events)] = [type |-> "ProcessTick", tick |-> model.tick]
        /\ \A i \in EventIndex, j \in EventIndex :
            i < j =>
                /\ EventRank(events[i]) <= EventRank(events[j])
                /\ EventRank(events[j]) = 3 => j = Len(events) /\ EventRank(events[i]) < 3
                /\ EventRank(events[j]) = 1 => events[i].player_id < events[j].player_id

\* A tick emits one PlayerDied for each player whose health reached 0 in it
\* and has removed that player, and none for any other
DiedAreSwept ==
    model'.tick = model.tick + 1 =>
        LET before == model.data.players.inner
            after == model'.data.players.inner
            died(id) == {i \in DOMAIN events' : /\ events'[i].type = "PlayerDied"
                                                /\ events'[i].player_id = id}
            spawned(id) == \E i \in DOMAIN events' : /\ events'[i].type = "PlayerSpawned"
                                                     /\ events'[i].id = id
        IN  /\ \A i \in DOMAIN events' :
                events'[i].type = "PlayerDied" => events'[i].player_id \in DOMAIN before
            /\ \A id \in DOMAIN before :
                /\ Cardinality(died(id)) = IF id \in DOMAIN after /\ ~spawned(id)
                                           THEN 0 ELSE 1
                /\ id \in DOMAIN after => ~Player_died(after[id])
            /\ \A i \in DOMAIN strikes' :
                /\ strikes'[i].health_after = 0 =>
                        Cardinality(died(strikes'[i].attacker)) = 1
                /\ (strikes'[i].target.entity_type = "Player"
                        /\ strikes'[i].target_health_after = 0) =>
                        Cardinality(died(strikes'[i].target.index)) = 1

\* C24: within one simulate_tick the events are emitted in this order: the
\* PlayerDied events, one for each player whose health reached 0 during the
\* tick, by increasing in-game id, each of these players removed from the
\* bucket; then the PlayerSpawned events; then one ProcessTick with the new
\* tick number, the last event.
C24_EventOrderOfTick ==
    /\ []EventsInOrder
    /\ [][DiedAreSwept]_vars

\* C24's case: in the last tick a player died and a queued player spawned
C24_Witness ==
    \E i \in EventIndex, j \in EventIndex :
        /\ events[i].type = "PlayerDied"
        /\ events[j].type = "PlayerSpawned"
        /\ events[j].id = events[i].player_id

\* C25: after every simulate_tick the number of mobs is at most
\* desired_mob_count, and it is below desired_mob_count only if no mob spawn
\* location (a Land cell of the mob spawn policy with no entity on it) was
\* free when the tick stopped spawning; with no free location spawn_mob
\* returns false and adds nothing.
C25_MobsToppedUp ==
    [][model'.tick = model.tick + 1 =>
        LET after == model'.data IN
        /\ Bucket_len(after.mobs) <= model'.desired_mob_count
        /\ Bucket_len(after.mobs) < model'.desired_mob_count =>
            /\ spawn_location(after, after.map.mob_spawn) = {}
            /\ spawn_mob(after) = {}]_vars

\* C25's case: a tick has run on a map with no free cell for the mob that is
\* missing
C25_Witness ==
    /\ model.tick > 0
    /\ events # <<>>
    /\ Bucket_len(data.mobs) < model.desired_mob_count
    /\ spawn_location(data, data.map.mob_spawn) = {}

\* C26: when a player's attack_square targets a cell occupied by a mob: with
\* using_powerpill the mob dies, the target cell is cleared, the attacker
\* gains 150 and does not move in that strike; without the power pill the
\* attacker dies, the attacker's source cell is cleared, and the mob and its
\* cell are unchanged.
C26_StrikeOnMob ==
    \A i \in StrikeIndex :
        strikes[i].target.entity_type = "Mob" =>
            IF strikes[i].using_powerpill
            THEN /\ strikes[i].target_dead_after
                 /\ strikes[i].dest_after = NoEntity
                 /\ strikes[i].score_after = strikes[i].score_before + KILL_SCORE
                 /\ strikes[i].pos_after = strikes[i].src
                 /\ strikes[i].src_after = new_player(strikes[i].attacker)
                 /\ strikes[i].health_after = strikes[i].health_before
            ELSE /\ strikes[i].health_after = 0
                 /\ strikes[i].src_after = NoEntity
                 /\ ~strikes[i].mobs_changed
                 /\ strikes[i].dest_after = strikes[i].target
                 /\ strikes[i].score_after = strikes[i].score_before
                 /\ strikes[i].pos_after = strikes[i].src

\* C26's case: the last tick had a strike on a mob with the power pill
C26_Witness ==
    \E i \in StrikeIndex :
        /\ strikes[i].target.entity_type = "Mob"
        /\ strikes[i].using_powerpill

\* The score of the food a player eats
FoodScore(food_item) ==
    CASE food_item = "Fruit" -> FRUIT_SCORE
      [] food_item = "PowerPill" -> POWERPILL_SCORE
      [] OTHER -> 0

\* C27 on the strikes of the last tick: a struck player that does not face
\* the attacker is left alone if it is invulnerable, and otherwise takes 1
\* damage; where that kills it, its cell is cleared, the attacker scores 150
\* and moves into the cell, eating the food there
StrikeOnPlayer(strike_record) ==
    (strike_record.target.entity_type = "Player" /\ ~strike_record.head_on) =>
        IF strike_record.target_invulnerable
        THEN /\ ~strike_record.players_changed
             /\ ~strike_record.entities_changed
             /\ ~strike_record.food_changed
             /\ ~strike_record.mobs_changed
        ELSE /\ strike_record.target_health_after
                    = saturating_sub(strike_record.target_health_before, 1)
             /\ ~strike_record.mobs_changed
             /\ IF strike_record.target_health_after = 0
                THEN /\ strike_record.src_after = NoEntity
                     /\ strike_record.dest_after = new_player(strike_record.attacker)
                     /\ strike_record.pos_after = strike_record.dest
                     /\ strike_record.score_after
                            = strike_record.score_before + KILL_SCORE
                                + FoodScore(strike_record.food_at_dest)
                     /\ strike_record.food_at_dest_after = "None"
                     /\ strike_record.health_after = strike_record.health_before
                ELSE /\ strike_record.pos_after = strike_record.src
                     /\ strike_record.score_after = strike_record.score_before
                     /\ ~strike_record.entities_changed
                     /\ ~strike_record.food_changed

\* C27: when a player's attack_square targets a cell occupied by a player P
\* that does not face the attacker head-on: if P is invulnerable nothing
\* changes; otherwise P takes 1 damage, and only if P's health reaches 0 is
\* P's cell cleared, the attacker's score increased by 150 and the attacker
\* moved into the vacated cell, eating any food there; if P survives the
\* attacker does not move.  The Model spawns every player with health
\* SPAWN_HEALTH = 1, so in a run a struck player never survives: the strike
\* on a player that survives is taken from the GameData of each state with
\* one more point of health given to the struck player, as Player::new
\* allows.
C27_StrikeOnPlayer ==
    /\ \A i \in StrikeIndex : StrikeOnPlayer(strikes[i])
    /\ \A id \in DOMAIN players, direction \in Direction, using_powerpill \in BOOLEAN :
        LET dest == calc_foward(data.map, players[id].pos, direction)
            target == IF dest # NoPos /\ base_tile(data.map, dest) = "Land"
                      THEN data.entities[dest] ELSE NoEntity
        IN  target.entity_type = "Player" =>
                LET P == players[target.index]
                    before == WorkingData(SetPlayer(data, target.index,
                                            [P EXCEPT !.health = P.health + 1]))
                    after == attack_square(before, id, direction, using_powerpill)
                    strike_record == StrikeRecord(before, after, id, direction,
                                                  using_powerpill)
                IN  /\ StrikeOnPlayer(strike_record)
                    /\ (~strike_record.head_on /\ ~strike_record.target_invulnerable) =>
                            /\ strike_record.target_health_after = P.health
                            /\ strike_record.pos_after = players[id].pos

\* C27's case: in the last tick a player struck a player that did not face
\* it and was not invulnerable, killed it and moved into its cell
C27_Witness ==
    \E i \in StrikeIndex :
        /\ strikes[i].target.entity_type = "Player"
        /\ ~strikes[i].head_on
        /\ ~strikes[i].target_invulnerable
        /\ strikes[i].pos_after = strikes[i].dest

\* The player a mob's advance would attack: the player on the cell the mob
\* can advance to, as a set
Attacked(d, mob_id) ==
    LET new == can_advance(d.mobs.inner[mob_id].pos, d.mobs.inner[mob_id].direction,
                           d.map, d.entities)
    IN  IF new # NoPos /\ d.entities[new].entity_type = "Player"
        THEN {d.entities[new].index} ELSE {}

\* C28 on a mob's advance from the GameData of a state: an invulnerable
\* player takes no damage and the mob does not move, and a player that is not
\* invulnerable takes 1 damage
AdvanceSparesInvulnerable ==
    \A mob_id \in DOMAIN mobs : \A id \in Attacked(WorkingData(data), mob_id) :
        LET before == WorkingData(data)
            advance == try_advance(before, mob_id)
        IN  IF players[id].invulnerable_turns > 0
            THEN ~advance.advanced /\ advance.data = before
            ELSE advance.data.players.inner[id].health
                    = saturating_sub(players[id].health, 1)

\* C28 on a tick: a player that starts it as it was spawned is still there
\* when it ends, one turn less invulnerable, unless a player's strike (its
\* own, or one by a player facing it) has killed it; and a player's turn
\* counts its invulnerable_turns down by one
FirstTickUnharmed ==
    model'.tick = model.tick + 1 =>
        \A id \in DOMAIN model.data.players.inner :
            LET P == model.data.players.inner[id]
                struck == \E i \in DOMAIN strikes' :
                            \/ /\ strikes'[i].attacker = id
                               /\ strikes'[i].health_after = 0
                            \/ /\ strikes'[i].target = new_player(id)
                               /\ strikes'[i].head_on
                died == \E i \in DOMAIN events' : /\ events'[i].type = "PlayerDied"
                                                  /\ events'[i].player_id = id
            IN  /\ (P.invulnerable_turns = SPAWN_INVULNERABLE_TURNS /\ ~struck) =>
                        /\ ~died
                        /\ model'.data.players.inner[id].health = P.health
                /\ ~died =>
                        model'.data.players.inner[id].invulnerable_turns
                            = saturating_sub(P.invulnerable_turns, 1)

\* C28: a player whose invulnerable_turns is greater than 0 at the moment of
\* an attack takes no damage from a mob's advance, and the mob does not move
\* into its cell; so a newly spawned player (invulnerable_turns = 2) is not
\* damaged by any mob during the whole first tick after it spawned, and it
\* can be damaged again once its own turns have counted invulnerable_turns
\* down to 0.
C28_InvulnerableToMobs ==
    /\ []AdvanceSparesInvulnerable
    /\ [][FirstTickUnharmed]_vars

\* C28's case: a mob has tried to advance onto a player in the first tick
\* after the player spawned, and the player is there, unharmed
C28_Witness ==
    \E mob_id \in DOMAIN mobs : \E id \in Attacked(WorkingData(data), mob_id) :
        /\ players[id].invulnerable_turns = SPAWN_INVULNERABLE_TURNS - 1
        /\ players[id].health = SPAWN_HEALTH
        /\ mobs[mob_id].stuck > 0

(***************************************************************************)
(* Properties of the fleet                                                 *)
(***************************************************************************)
games == manager.games.inner
UserIds == {db[username].id : username \in DOMAIN db}

\* Where a user is in the games: the places in spawn queues and the keys of
\* id_maps that hold the user id
PlacesOf(user_id) ==
    UNION {{<<game_id, "spawning_players", i>> :
                i \in {j \in 1..Len(games[game_id].model.spawning_players) :
                            games[game_id].model.spawning_players[j][1] = user_id}}
           \cup
           {<<game_id, "id_map", player_id>> :
                player_id \in {k \in DOMAIN games[game_id].id_map :
                                    games[game_id].id_map[k] = user_id}} :
           game_id \in DOMAIN games}

\* C4: a user id is never present twice in the fleet: at all times each user
\* id is in at most one of spawning_players and ingame_players, and in at
\* most one place among the games' spawn queues and id_maps.
C4_UserPresentOnce ==
    \A user_id \in UserIds :
        /\ ~(user_id \in DOMAIN manager.ingame_players
                /\ user_id \in DOMAIN manager.spawning_players)
        /\ Cardinality(PlacesOf(user_id)) <= 1

\* C2: for any game and any sequence of ticks, starting from the Initial
\* message and applying each tick's Delta in order (deaths, moves, spawns,
\* food eaten, food spawned, metadata changes, each list in its emitted
\* order) reconstructs exactly the entities, food and metadata of the
\* GameData after the last tick.
C2_ReconstructionIsGameData ==
    \A game_id \in DOMAIN view :
        game_id \in DOMAIN spectator.games
            => Seen(view[game_id]) = Shown(spectator.games[game_id].game_data)

\* The event's tick number is the tick counter of the user's game, and the
\* user's player exists in it
ActionApplies(event) ==
    /\ event.user_id \in DOMAIN manager.ingame_players
    /\ LET player == manager.ingame_players[event.user_id] IN
       /\ player.game_id \in DOMAIN games
       /\ games[player.game_id].model.tick = event.tick
       /\ player.in_game_player_id
            \in DOMAIN games[player.game_id].model.data.players.inner
       /\ player.in_game_player_id \in DOMAIN games[player.game_id].id_map
       /\ games[player.game_id].id_map[player.in_game_player_id] = event.user_id

\* The GlobalManager takes this Action event off its channel
ActionHandled(event) ==
    /\ Live
    /\ rx # <<>>
    /\ Head(rx) = event
    /\ event.type = "Action"
    /\ rx' = Tail(rx)

\* What an Action event that applies changes: the next_action of the user's
\* player, and waiting_players when the player had none
ActionApplied(event) ==
    LET player == manager.ingame_players[event.user_id]
        game == games[player.game_id]
        id == player.in_game_player_id
        before == game.model.data.players.inner[id]
    IN  /\ ~crashed'
        /\ manager' =
             SetGame(manager, player.game_id,
                [game EXCEPT
                    !.model.data.players.inner[id].next_action = event.action,
                    !.model.waiting_players =
                        IF before.next_action = "None" THEN @ - 1 ELSE @])

\* C3: an Action carrying tick number t changes game state only if it is
\* handled while the game's tick counter is t and the user's player exists,
\* and then it sets that player's next_action and nothing else of the game;
\* every simulate_tick leaves all next_actions empty, so the action is
\* consumed by simulate_tick number t + 1 and by no other.  In every other
\* case the action is dropped: the games, waiting_players and the connections
\* are unchanged.
C3_ActionOnlyInItsTick ==
    [][/\ \A event \in {rx[i] : i \in {1} \cap DOMAIN rx} :
            ActionHandled(event) =>
                /\ UNCHANGED <<competitor, competitor_rx, spectator, view, now>>
                /\ IF ActionApplies(event) THEN ActionApplied(event)
                   ELSE UNCHANGED <<manager, crashed>>
       /\ \A game_id \in DOMAIN games \cap DOMAIN games' :
            games'[game_id].model.tick # games[game_id].model.tick =>
                /\ games'[game_id].model.tick = games[game_id].model.tick + 1
                /\ \A id \in DOMAIN games'[game_id].model.data.players.inner :
                        games'[game_id].model.data.players.inner[id].next_action = "None"
      ]_vars

\* C3's case: a user's action for the current tick is set on their player and
\* the tick in which it is consumed has not yet run
C3_Witness ==
    \E user_id \in DOMAIN manager.ingame_players :
        LET player == manager.ingame_players[user_id] IN
        /\ player.game_id \in DOMAIN games
        /\ player.in_game_player_id
                \in DOMAIN games[player.game_id].model.data.players.inner
        /\ games[player.game_id].model.data.players.inner[
                player.in_game_player_id].next_action = "Forward"
        /\ games[player.game_id].id_map[player.in_game_player_id] = user_id
        /\ games[player.game_id].model.tick = now


\* What try_spawn_player does to this game for any user
TrySpawnPlayerKeepsRoom(game) ==
    \A user_id \in UserIds :
        LET r == try_spawn_player(game, user_id, "x") IN
        IF total_player_count(game) < MAX_PLAYERS
        THEN /\ r.ok
             /\ r.game = [game EXCEPT !.model.spawning_players =
                                        Append(@, <<user_id, "x">>)]
        ELSE /\ ~r.ok
             /\ r.game = game

\* C5: in every reachable state, for every game, the live players plus the
\* queued spawning players are at most MAX_PLAYERS = 8: try_spawn_player
\* enqueues the user and returns true only when that total is below 8, and
\* otherwise returns false and leaves the game unchanged.
C5_AtMostMaxPlayers ==
    \A game_id \in DOMAIN games :
        /\ Cardinality(DOMAIN games[game_id].model.data.players.inner)
            + Len(games[game_id].model.spawning_players) <= MAX_PLAYERS
        /\ TrySpawnPlayerKeepsRoom(games[game_id])

\* C5's case: a game holds MAX_PLAYERS users, and the user who signed in
\* after them was refused by it and is queued in another game
C5_Witness ==
    \E full \in DOMAIN games, other \in DOMAIN games :
        /\ full # other
        /\ Cardinality(DOMAIN games[full].model.data.players.inner)
            + Len(games[full].model.spawning_players) = MAX_PLAYERS
        /\ Len(games[other].model.spawning_players) > 0
        /\ arriving = <<>>

\* The outcomes of the first loop of tick_games: the games ticked, their
\* events, and the games to close
TickedGames ==
    UNION {tick_each({[manager |-> manager, game_events |-> <<>>,
                       closing_games |-> <<>>, panicked |-> FALSE]}, order) :
           order \in Orders(DOMAIN manager.games.inner)}

\* What tick_games leaves after these ticked games
AfterTick(ticked) ==
    close_games(
        handle_game_events([Handler(ticked.manager) EXCEPT !.panicked = ticked.panicked],
                           ticked.game_events, 1),
        ticked.closing_games, 1)

\* The places of the GameClosed of this game among the events sent
GameClosedAt(spectator_tx, game_id) ==
    {i \in DOMAIN spectator_tx : spectator_tx[i].type = "GameClosed"
                                 /\ spectator_tx[i].game_id = game_id}

\* C19: whenever the tick interval fires, tick_games removes every game
\* that has no live and no spawning player after its tick and sends exactly
\* one GameClosed for it, after the events of that game of this step; a game
\* with a live or a spawning player stays and no GameClosed is sent for it.
C19_EmptyGamesClosed ==
    \A ticked \in TickedGames :
        LET st == AfterTick(ticked)
            ticked_games == ticked.manager.games.inner
            empty == {game_id \in DOMAIN ticked_games :
                        total_player_count(ticked_games[game_id]) = 0}
        IN  ~st.panicked =>
              /\ DOMAIN st.manager.games.inner = DOMAIN ticked_games \ empty
              /\ \A game_id \in DOMAIN st.manager.games.inner :
                    total_player_count(st.manager.games.inner[game_id]) > 0
              /\ \A game_id \in DOMAIN ticked_games :
                    /\ Cardinality(GameClosedAt(st.spectator_tx, game_id))
                            = IF game_id \in empty THEN 1 ELSE 0
                    /\ \A i \in GameClosedAt(st.spectator_tx, game_id) :
                            \A j \in DOMAIN st.spectator_tx :
                                st.spectator_tx[j].game_id = game_id => j <= i

\* C19's case: a tick has closed the second game, which its only player
\* had left, and the first game is still open
C19_Witness ==
    /\ now > 0
    /\ manager.games.max_id = 2
    /\ DOMAIN manager.games.inner = {0}
    /\ ~crashed

\* C20: a spectator that connects at any point between the events the
\* spectator::Manager receives is sent exactly one InitialMessage for each
\* game that is open at that moment: building the initial messages does not
\* panic.
C20_OneInitialPerOpenGame ==
    welcome # <<>> =>
        /\ ~welcome[1].panicked
        /\ Len(welcome[1].sent) = Cardinality(welcome[1].games)
        /\ {welcome[1].sent[i].game_id : i \in DOMAIN welcome[1].sent}
                = welcome[1].games

\* The assertion of spectator::Manager::handle_event on the games it knows:
\* a GameOpened is for a game it does not know, every other event for one
\* it knows
Asserted(known, event) ==
    IF event.type = "GameOpened" THEN event.game_id \notin known
    ELSE event.game_id \in known

\* The games the spectator::Manager knows after these events, and whether
\* every assertion held on the way
RECURSIVE Replay(_, _, _)
Replay(known, spectator_events, i) ==
    IF i > Len(spectator_events) THEN [known |-> known, ok |-> TRUE]
    ELSE LET event == spectator_events[i] IN
         IF ~Asserted(known, event) THEN [known |-> known, ok |-> FALSE]
         ELSE Replay(IF event.type = "GameOpened" THEN known \cup {event.game_id}
                     ELSE IF event.type = "GameClosed" THEN known \ {event.game_id}
                     ELSE known,
                     spectator_events, i + 1)

\* The events a step has added to the channel into the spectator::Manager
SentToSpectator ==
    IF Len(spectator_rx') > Len(spectator_rx)
    THEN SubSeq(spectator_rx', Len(spectator_rx) + 1, Len(spectator_rx'))
    ELSE <<>>

\* The places of the events of this type for this game
EventsAt(spectator_events, type, game_id) ==
    {i \in DOMAIN spectator_events : /\ spectator_events[i].type = type
                                     /\ spectator_events[i].game_id = game_id}

\* C21 on the events a step sends: a game that stays open is sent one Tick
\* for each tick its model has advanced, a game that the step closes is sent
\* its Tick and then its GameClosed, and a game's Tick comes after its
\* PlayerSpawned and PlayerLeft of the step
TicksInOrder ==
    LET sent == SentToSpectator
        before == manager.games.inner
        after == manager'.games.inner
    IN  ~crashed' =>
          \A game_id \in DOMAIN before :
            LET ticks == EventsAt(sent, "Tick", game_id)
                closes == EventsAt(sent, "GameClosed", game_id)
                others == {i \in DOMAIN sent : sent[i].game_id = game_id} \ closes
            IN  /\ \A i \in ticks, j \in others : j <= i
                /\ \A i \in closes, j \in others : j < i
                /\ IF game_id \in DOMAIN after /\ closes = {}
                   THEN Cardinality(ticks)
                            = after[game_id].model.tick - before[game_id].model.tick
                   ELSE Cardinality(ticks) = 1 /\ Cardinality(closes) = 1

\* C21: for each game id the events that reach the spectator::Manager are
\* ordered: a GameOpened first, then PlayerSpawned, PlayerLeft and Tick
\* events with the Ticks in the order of the ticks, then a GameClosed, after
\* which a GameOpened can follow for the same id; so the assertions of
\* handle_event on the games it knows ("already existed", "didn't exist")
\* hold for the events in the channel, after which it knows the games the
\* GlobalManager has open, and its broadcasts leave a spectator with the
\* games it knows.
C21_SpectatorEventsOrdered ==
    /\ [](~crashed =>
            /\ Replay(DOMAIN spectator.games, spectator_rx, 1).ok
            /\ Replay(DOMAIN spectator.games, spectator_rx, 1).known
                    = DOMAIN manager.games.inner
            /\ DOMAIN view = DOMAIN spectator.games)
    /\ [][TicksInOrder]_vars

\* C21's case: a game was closed and a game with its id opened again, and
\* the spectator::Manager has yet to receive both events
C21_Witness ==
    /\ ~crashed
    /\ \E i \in DOMAIN spectator_rx :
        /\ i < Len(spectator_rx)
        /\ spectator_rx[i].type = "GameClosed"
        /\ spectator_rx[i + 1].type = "GameOpened"
        /\ spectator_rx[i + 1].game_id = spectator_rx[i].game_id

\* The entity with this id in both snapshots is one entity: a player is the
\* player of one user
SameEntity(entity_type, id, old_state, new_state) ==
    /\ Bucket_contains(EntitiesOf(old_state, entity_type), id)
    /\ Bucket_contains(EntitiesOf(new_state, entity_type), id)
    /\ entity_type = "Player" =>
            old_state.players.inner[id].username = new_state.players.inner[id].username

\* C22: for every pair of consecutive snapshots of a game, every entity
\* removed between them (it died, or it was removed when its user
\* disconnected) is reported as EntityDied at its old position, and every
\* entity created between them is reported as EntitySpawned at its new
\* position with its full metadata, whichever in-game ids were released and
\* given out again between the two snapshots.
C22_RemovedDiedCreatedSpawned ==
    [][\A game_id \in DOMAIN spectator.games \cap DOMAIN spectator'.games :
        LET old_state == spectator.games[game_id].game_data
            new_state == spectator'.games[game_id].game_data
            id_map == spectator'.games[game_id].id_map
        IN  old_state # new_state =>
              \A r \in create_delta_message(game_id, old_state, new_state, id_map) :
                ~r.panicked =>
                  \A entity_type \in {"Mob", "Player"} :
                    /\ \A id \in DOMAIN EntitiesOf(old_state, entity_type).inner :
                        ~SameEntity(entity_type, id, old_state, new_state) =>
                            \E i \in DOMAIN r.message.entity_died :
                                r.message.entity_died[i].position
                                    = flatten_coordinate(old_state.map.height,
                                        EntitiesOf(old_state, entity_type).inner[id].pos)
                    /\ \A id \in DOMAIN EntitiesOf(new_state, entity_type).inner :
                        ~SameEntity(entity_type, id, old_state, new_state) =>
                            \E i \in DOMAIN r.message.entity_spawned :
                                r.message.entity_spawned[i]
                                    = [position |->
                                          flatten_coordinate(new_state.map.height,
                                            EntitiesOf(new_state, entity_type).inner[id].pos),
                                       metadata |->
                                          CompleteEntityMetadata(entity_type, id,
                                            EntitiesOf(new_state, entity_type).inner[id],
                                            id_map)]]_vars

(***************************************************************************)
(* Properties of the Bucket                                                *)
(***************************************************************************)
\* C11: after any sequence of add, insert and remove on a Bucket, add
\* returns the smallest non-negative id that is not occupied (a released id
\* before a new maximum, and never more than the previous max_id) and does
\* not overwrite an entry: the entries of before are as they were.
C11_AddReturnsSmallestFreeId ==
    returned.op = "add" =>
        /\ returned.id >= 0
        /\ returned.id <= returned.before.max_id
        /\ ~Bucket_contains(returned.before, returned.id)
        /\ \A i \in 0..(returned.id - 1) : Bucket_contains(returned.before, i)
        /\ DOMAIN bucket.inner = DOMAIN returned.before.inner \cup {returned.id}
        /\ \A i \in DOMAIN returned.before.inner :
                bucket.inner[i] = returned.before.inner[i]

\* C11's case: add has reused a released id below an occupied one
C11_Witness ==
    /\ returned.op = "add"
    /\ \E i \in DOMAIN returned.before.inner : returned.id < i
    /\ returned.id + 1 < returned.before.max_id

\* C12: after any sequence of add, insert and remove on a Bucket, every
\* occupied id is strictly less than max_id and len() <= max_id, so
\* minimum_available_id does not reach its unreachable! branch.
C12_IdsBelowMaxId ==
    /\ \A id \in DOMAIN bucket.inner : id < bucket.max_id
    /\ Bucket_len(bucket) <= bucket.max_id
    /\ minimum_available_id(bucket) # -1

\* C12's case: ids have been released, so that len() < max_id, and an insert
\* above max_id has raised it
C12_Witness ==
    /\ returned.op = "insert"
    /\ returned.id > returned.before.max_id
    /\ Bucket_len(bucket) < bucket.max_id
    /\ Bucket_len(returned.before) < returned.before.max_id

(***************************************************************************)
(* Properties of the AuthenticationManager                                 *)
(***************************************************************************)
\* What the task of the last request sent
LookupSent == lookup[1].game_tx \o lookup[1].competitor_tx

LookupBad(reason) ==
    /\ lookup[1].game_tx = <<>>
    /\ lookup[1].competitor_tx =
            <<[type |-> "BadAuthentication",
               temporary_id |-> lookup[1].request.temporary_id,
               reason |-> reason]>>

\* C16: for every AuthenticationRequest whose lookup completes: a username
\* that is not in the table yields BadAuthentication PlayerNotFound; a user
\* with a different code yields BadCode, enabled or not; a user with the
\* matching code that is not enabled yields PlayerNotEnabled; only an enabled
\* user with the matching code yields Authenticated, sent to the
\* GlobalManager; in the three failures nothing is sent to the GlobalManager.
C16_AuthenticationOutcome ==
    lookup # <<>> =>
        LET request == lookup[1].request IN
        IF request.username \notin DOMAIN db THEN LookupBad("PlayerNotFound")
        ELSE IF db[request.username].code # request.code THEN LookupBad("BadCode")
        ELSE IF ~db[request.username].enabled THEN LookupBad("PlayerNotEnabled")
        ELSE /\ lookup[1].competitor_tx = <<>>
             /\ lookup[1].game_tx =
                    <<[type |-> "Authenticated", username |-> request.username,
                       high_score |-> db[request.username].high_score,
                       user_id |-> db[request.username].id,
                       temporary_id |-> request.temporary_id]>>

\* C16's case: a request with the wrong code for a user that is not enabled
\* has been answered
C16_Witness ==
    /\ lookup # <<>>
    /\ lookup[1].request.username \in DOMAIN db
    /\ db[lookup[1].request.username].code # lookup[1].request.code
    /\ ~db[lookup[1].request.username].enabled
    /\ Len(LookupSent) = 1

(***************************************************************************)
(* Properties of the connections of the competitor::Manager                *)
(***************************************************************************)
StreamsIn(b) == {b.inner[id].stream : id \in DOMAIN b.inner}

\* The streams the competitor::Manager holds
Held ==
    StreamsIn(competitor.unauthenticated) \cup StreamsIn(competitor.spawning)
        \cup StreamsIn(competitor.in_game)

\* spawned before any tick, tick numbers strictly increasing, nothing after
\* died
Ordered(written) ==
    /\ \A i \in DOMAIN written :
            written[i].type = "tick" =>
                \E j \in 1..(i - 1) : written[j].type = "spawned"
    /\ \A i, j \in DOMAIN written :
            (i < j /\ written[i].type = "tick" /\ written[j].type = "tick")
                => written[i].tick < written[j].tick
    /\ \A i \in DOMAIN written : written[i].type = "died" => i = Len(written)

\* C13: on every connection, the messages the competitor::Manager writes
\* are ordered: spawned comes before any tick message, tick messages carry
\* strictly increasing tick numbers, and at most one died message is written,
\* after which the Manager no longer holds the stream and nothing more is
\* written to it.
C13_MessagesOrdered ==
    /\ \A stream \in Held \cup closed : Ordered(stream.written)
    /\ \A stream \in Held : \A i \in DOMAIN stream.written :
            stream.written[i].type # "died"

\* C13's case: a connection that was written spawned, two tick messages and
\* died
C13_Witness ==
    \E stream \in closed :
        /\ Len(stream.written) = 4
        /\ stream.written[1].type = "spawned"
        /\ stream.written[2].type = "tick"
        /\ stream.written[3].type = "tick"
        /\ stream.written[4].type = "died"

\* The authentication of this unauthenticated stream is pending
Pending(temporary_id) == competitor.unauthenticated.inner[temporary_id].metadata

\* The outcomes in flight for this temporary id
InFlight(temporary_id) ==
    {i \in DOMAIN rx : rx[i].type = "Authenticated"
                        /\ rx[i].temporary_id = temporary_id}
    \cup {-i : i \in {j \in DOMAIN competitor_rx :
                        competitor_rx[j].type \in {"Authenticated", "BadAuthentication"}
                        /\ competitor_rx[j].temporary_id = temporary_id}}

C15_OneAuthenticationRequest ==
    /\ \A stream \in Held \cup closed : stream.requested <= 1
    /\ \A temporary_id \in DOMAIN competitor.unauthenticated.inner :
            /\ Pending(temporary_id) <=>
                    competitor.unauthenticated.inner[temporary_id].stream.requested = 1
            /\ Pending(temporary_id) =>
                    \A msg \in GateLine :
                        handle_unauthenticated_message(competitor, temporary_id, msg)
                            = [competitor |-> competitor,
                               authentication_request_sender |-> <<>>]

\* C15's case: a connection whose authentication is pending, its peer still
\* there to send more, next to one that has sent nothing well formed
C15_Witness ==
    \E t, u \in DOMAIN competitor.unauthenticated.inner :
        /\ Pending(t)
        /\ ~competitor.unauthenticated.inner[t].stream.peer_gone
        /\ ~Pending(u)
        /\ ~crashed

\* C17: whenever the competitor::Manager handles a BadAuthentication, it
\* writes the error of its reason to the connection and drops it: the stream
\* leaves the unauthenticated bucket, nothing enters the spawning or in_game
\* bucket, and the Manager does not panic.
C17_BadAuthenticationClosesConnection ==
    [][(/\ competitor_rx # <<>>
        /\ Head(competitor_rx).type = "BadAuthentication"
        /\ CompetitorRecv)
            => LET event == Head(competitor_rx)
                   entry == competitor.unauthenticated.inner[event.temporary_id]
               IN  /\ ~crashed'
                   /\ closed' = {MessageStream_send(entry.stream,
                                    [type |-> "error", reason |-> event.reason])}
                   /\ competitor' =
                        [competitor EXCEPT !.unauthenticated =
                            remove_stream(competitor.unauthenticated,
                                          event.temporary_id)]]_vars

(***************************************************************************)
(* Properties of the MessageStream                                         *)
(***************************************************************************)
\* The newline-terminated lines of these bytes, in order, without their
\* newlines; line is the line being read
RECURSIVE Lines(_, _, _)
Lines(bytes, i, line) ==
    IF i > Len(bytes) THEN <<>>
    ELSE IF bytes[i] = NewLine THEN <<line>> \o Lines(bytes, i + 1, <<>>)
    ELSE Lines(bytes, i + 1, Append(line, bytes[i]))

\* A line fits in the buffer with its newline
Fits(line) == Len(line) < BufSize

IsPrefix(p, q) == Len(p) <= Len(q) /\ SubSeq(q, 1, Len(p)) = p

\* C18: whatever the chunks the bytes are read in, the messages yielded
\* are, in order, the newline-terminated lines the peer has sent that fit in
\* the buffer: no part of a line that does not fit is yielded.
C18_YieldsFittingLines ==
    IsPrefix(yielded, SelectSeq(Lines(socket.sent, 1, <<>>), Fits))

(***************************************************************************)
(* Properties of the tick message                                          *)
(***************************************************************************)
\* One step in a direction, as Map::calc_foward takes it
Step(direction) ==
    CASE direction = "North" -> <<0, -1>>
      [] direction = "East"  -> <<1, 0>>
      [] direction = "South" -> <<0, 1>>
      [] direction = "West"  -> <<-1, 0>>

\* The world cell x steps to the right of a player and y steps ahead of it
Ahead(player, x, y) ==
    LET forward == Step(player.direction)
        right == Step(clockwise(player.direction))
    IN  <<player.pos[1] + x * right[1] + y * forward[1],
          player.pos[2] + x * right[2] + y * forward[2]>>

\* What a tick message of this viewer shows of a cell of the snapshot
ShownTile(game_data, viewer, world) ==
    LET entity_index == game_data.entities[world] IN
    [base |-> base_tile(game_data.map, world),
     food |-> game_data.food[world],
     player |-> IF entity_index.entity_type = "Player"
                THEN Some(PlayerView(game_data.players.inner[entity_index.index],
                                     world = viewer.pos))
                ELSE None,
     mob |-> IF entity_index.entity_type = "Mob"
             THEN Some(MobView(game_data.mobs.inner[entity_index.index]))
             ELSE None]

\* C29: for every player position and facing, create_tick_message yields a
\* 3 x 4 view whose cell [ix][iy] shows the world cell at the offset
\* (x = ix - 1, y = 2 - iy) rotated by the facing (x to the right, y ahead):
\* cell [1][2] is the viewer's own cell and the only cell with
\* is_current_player = true, and every cell that maps outside the grid is
\* reported as base Wall with no player, mob or food.
C29_ViewOfPlayer ==
    tick_message # <<>> =>
        LET game_data == tick_message[1].game_data
            messages == tick_message[1].messages
        IN  \A player_id \in DOMAIN messages :
                LET viewer == game_data.players.inner[player_id]
                    tile(ix, iy) == messages[player_id].view[ix + 1][iy + 1]
                IN  /\ ~messages[player_id].panicked
                    /\ \A ix \in 0..2, iy \in 0..3 :
                        LET world == Ahead(viewer, ix - 1, 2 - iy) IN
                        /\ tile(ix, iy) =
                                IF world \in Positions(game_data.map)
                                THEN ShownTile(game_data, viewer, world)
                                ELSE [base |-> "Wall", mob |-> None, player |-> None,
                                      food |-> "None"]
                        /\ (tile(ix, iy).player # None
                                /\ tile(ix, iy).player[1].is_current_player)
                            => ix = 1 /\ iy = 2
                    /\ tile(1, 2).player = Some(PlayerView(viewer, TRUE))

\* C29's case: a tick message for a player that faces South shows another
\* player, and a cell outside the grid
C29_Witness ==
    /\ tick_message # <<>>
    /\ \E player_id \in DOMAIN tick_message[1].messages :
        LET shown == tick_message[1].messages[player_id].view IN
        /\ tick_message[1].game_data.players.inner[player_id].direction = "South"
        /\ \E ix \in 1..3, iy \in 1..4 :
            /\ shown[ix][iy].player # None
            /\ ~shown[ix][iy].player[1].is_current_player
        /\ \E ix \in 1..3, iy \in 1..4 :
            Ahead(tick_message[1].game_data.players.inner[player_id], ix - 2, 3 - iy)
                \notin Positions(tick_message[1].game_data.map)

(***************************************************************************)
(* Properties of the count of awaited players                              *)
(***************************************************************************)
\* The players in the bucket whose next_action is not set
Unanswered(m) ==
    {id \in DOMAIN m.data.players.inner : m.data.players.inner[id].next_action = "None"}

\* C30: after any sequence of simulate_tick, add_client, player_action and
\* remove_client, waiting_players() equals the number of players in the
\* bucket whose next_action is not set for the current tick, and the
\* assert_ne!(waiting_players, 0) of player_action has not failed.
C30_WaitingPlayersCount ==
    /\ model.waiting_players = Cardinality(Unanswered(model))
    /\ model.waiting_players >= 0

(***************************************************************************)
(* Properties of disconnections and of failed writes                       *)
(***************************************************************************)
\* The step is the disconnection of this user's in_game stream: the stream
\* leaves the bucket while the competitor::Manager receives no event
Disconnects(user_id) ==
    /\ Bucket_contains(competitor.in_game, user_id)
    /\ ~Bucket_contains(competitor'.in_game, user_id)
    /\ competitor_rx' = competitor_rx

\* The step is the GlobalManager's handling of a PlayerDisconnected
HandlesDisconnected ==
    /\ rx # <<>>
    /\ rx' = Tail(rx)
    /\ Head(rx).type = "PlayerDisconnected"

\* The in-game ids of this user's players in a game
PlayersOf(game, user_id) ==
    {player_id \in DOMAIN game.model.data.players.inner :
        player_id \in DOMAIN game.id_map /\ game.id_map[player_id] = user_id}

\* One PlayerDisconnected, with the stream's metadata, is sent
DisconnectionSent ==
    \A user_id \in DOMAIN competitor.in_game.inner :
        Disconnects(user_id) =>
            rx' = Append(rx, [type |-> "PlayerDisconnected", user_id |-> user_id,
                              game_id |-> competitor.in_game.inner[user_id].metadata.game_id,
                              in_game_player_id |->
                                competitor.in_game.inner[user_id].metadata.in_game_player_id])

\* Handling it does not fail, and where the game exists the user has no
\* player in it afterwards and is not in ingame_players; where it does not,
\* nothing changes
DisconnectedHandled ==
    HandlesDisconnected =>
        LET event == Head(rx) IN
        /\ ~crashed'
        /\ IF Bucket_contains(manager.games, event.game_id)
           THEN /\ Bucket_contains(manager'.games, event.game_id)
                /\ PlayersOf(manager'.games.inner[event.game_id], event.user_id) = {}
                /\ PlayersOf(manager.games.inner[event.game_id], event.user_id) # {}
                /\ event.user_id \notin DOMAIN manager'.ingame_players
           ELSE manager' = manager

\* C31: when an in-game connection reaches EOF or a read error, exactly one
\* PlayerDisconnected{user_id, game_id, in_game_player_id} is sent to the
\* orchestrator; handling it removes that user's player from the game and
\* the user from ingame_players, and if the game no longer exists the event
\* is dropped without failure.
C31_PlayerDisconnectedHandled == [][DisconnectionSent /\ DisconnectedHandled]_vars

\* The step is the competitor::Manager's handling of the event at the head
\* of its channel
CompetitorHandles ==
    /\ ~crashed
    /\ competitor_rx # <<>>
    /\ rx' = rx
    /\ now' = now
    /\ manager' = manager
    /\ crashed' \/ competitor_rx' = Tail(competitor_rx)

\* Handling this event writes to a stream whose peer has gone
WritesToGone(c, event) ==
    LET gone(streams, id) ==
            Bucket_contains(streams, id) /\ streams.inner[id].stream.peer_gone
    IN  CASE event.type = "BadAuthentication" -> gone(c.unauthenticated, event.temporary_id)
          [] event.type = "PlayerSpawned" -> gone(c.spawning, event.user_id)
          [] event.type = "PlayerDied" -> gone(c.in_game, event.user_id)
          [] event.type = "ProcessTick" ->
                \E player_id \in DOMAIN event.id_map :
                    gone(c.in_game, event.id_map[player_id])
          [] OTHER -> FALSE

\* C32: a failed write to a client socket (the spawned, tick, died or error
\* message to a peer that has already gone) only results in that socket
\* being closed or dropped: it never terminates the competitor manager's
\* event loop, and no connection whose peer is still there is dropped.
C32_FailedWriteOnlyDropsSocket ==
    [][(CompetitorHandles /\ WritesToGone(competitor, Head(competitor_rx)))
        => /\ ~crashed'
           /\ \A stream \in closed' : stream.peer_gone]_vars

(***************************************************************************)
(* Properties of the orchestrator's maps                                   *)
(***************************************************************************)
\* The keys of a game's id_map are the ids of its player bucket
IdMapOfBucket(game) == DOMAIN game.id_map = DOMAIN game.model.data.players.inner

\* A record of ingame_players names an open game whose id_map gives the
\* record's in-game id to the user
RecordPoints(user_id) ==
    LET player == manager.ingame_players[user_id] IN
    /\ Bucket_contains(manager.games, player.game_id)
    /\ player.in_game_player_id \in DOMAIN manager.games.inner[player.game_id].id_map
    /\ manager.games.inner[player.game_id].id_map[player.in_game_player_id] = user_id

\* C33: whenever the orchestrator is between event handlers, each game's
\* id_map has exactly the in-game ids of the players in that game's player
\* bucket as its keys, and every record in ingame_players names an open game
\* in which id_map[in_game_player_id] is that user; the unwraps of the id_map
\* lookups in LocalManager::tick and in the handling of ProcessTick do not
\* fail.
C33_IdMapsAgree ==
    ~crashed =>
        /\ \A game_id \in DOMAIN manager.games.inner :
                IdMapOfBucket(manager.games.inner[game_id])
        /\ \A user_id \in DOMAIN manager.ingame_players : RecordPoints(user_id)

\* The players of a game that belong to other users than this one are still
\* in the game after the step
OthersStay(user_id) ==
    \A game_id \in DOMAIN manager.games.inner :
        \A player_id \in DOMAIN manager.games.inner[game_id].model.data.players.inner :
            (\E other \in UserIds \ {user_id} :
                player_id \in PlayersOf(manager.games.inner[game_id], other))
            => /\ Bucket_contains(manager'.games, game_id)
               /\ Bucket_contains(manager'.games.inner[game_id].model.data.players,
                                  player_id)

\* C34: handling PlayerDisconnected{user_id, game_id, in_game_player_id}
\* never removes a player belonging to a different user and never fails,
\* under every interleaving of the client's disconnect with the
\* orchestrator's ticks: also when the user's player died in a tick before
\* the event was handled, whether or not the freed in-game id was given to a
\* newly spawned player.
C34_DisconnectRemovesOwnPlayer ==
    [][HandlesDisconnected => ~crashed' /\ OthersStay(Head(rx).user_id)]_vars

\* C35: whenever the competitor manager handles PlayerDied{user_id} it finds
\* that user's stream in the in_game bucket, and whenever it handles
\* PlayerSpawned{user_id} it finds that user's stream in the spawning
\* bucket, under every interleaving of client disconnects with the
\* orchestrator's ticks: the remove_stream(..).unwrap() calls do not fail.
C35_StreamFoundForGameEvent ==
    [][CompetitorHandles =>
        LET event == Head(competitor_rx) IN
        /\ event.type = "PlayerDied" => Bucket_contains(competitor.in_game, event.user_id)
        /\ event.type = "PlayerSpawned" =>
                Bucket_contains(competitor.spawning, event.user_id)]_vars

(***************************************************************************)
(* Properties of signing in again                                          *)
(***************************************************************************)
\* Every event sent has been handled
Quiet == rx = <<>> /\ competitor_rx = <<>>

\* The user has a connection that is waiting for its player or playing
Connected(user_id) ==
    \/ Bucket_contains(competitor.spawning, user_id)
    \/ Bucket_contains(competitor.in_game, user_id)

\* The user is in neither map once it has no connection left and every
\* event has been handled
NotPlayingOnceGone ==
    (~crashed /\ Quiet) =>
        \A user_id \in UserIds :
            ~Connected(user_id) => ~already_playing(manager, user_id)

\* The next user to arrive signs in, and is accepted if it had no connection
\* and every event had been handled
AcceptedAgain ==
    (~crashed /\ Quiet /\ arriving # <<>> /\ arriving' = Tail(arriving) /\ ~crashed'
        /\ ~Connected(db[Head(arriving)].id))
    => /\ Len(competitor_rx') = 1
       /\ competitor_rx'[1].type = "Authenticated"
       /\ competitor_rx'[1].id = db[Head(arriving)].id
       /\ db[Head(arriving)].id \in DOMAIN manager'.spawning_players

\* C36: no user is locked out: once a user's player has died or their
\* in-game connection has disconnected, and the resulting events have been
\* handled, the user is in neither ingame_players nor spawning_players, so
\* that a later valid authentication for that user is accepted and not
\* rejected with PlayerInGame.
C36_NoUserLockedOut == []NotPlayingOnceGone /\ [][AcceptedAgain]_vars

\* C36's case: user a, who signed in first, has signed in a second time
\* after every event had been handled, and was accepted
C36_Witness ==
    /\ ~crashed
    /\ arriving = <<"a">>
    /\ now >= 2
    /\ rx = <<>>
    /\ competitor_rx = <<[type |-> "Authenticated", temporary_id |-> 0,
                          id |-> db["a"].id]>>
    /\ db["a"].id \in DOMAIN manager.spawning_players

(***************************************************************************)
(* Properties of the answer to an AuthenticationRequest                    *)
(***************************************************************************)
\* The connection with this temporary id has sent its request and waits for
\* the outcome: it is not disconnectable and its lines are ignored
AuthPending(temporary_id) ==
    /\ Bucket_contains(competitor.unauthenticated, temporary_id)
    /\ competitor.unauthenticated.inner[temporary_id].metadata

\* C37: every AuthenticationRequest forwarded by the competitor manager
\* eventually results in exactly one Authenticated or BadAuthentication
\* event for that temporary id being delivered back to the competitor
\* manager, also when the lookup of the user fails: while the connection is
\* pending at most one outcome is on its way, and no connection stays
\* pending forever.
C37_RequestAnswered ==
    /\ [](\A temporary_id \in DOMAIN competitor.unauthenticated.inner :
            Pending(temporary_id) => Cardinality(InFlight(temporary_id)) <= 1)
    /\ \A temporary_id \in 0..(MaxConn - 1) :
            AuthPending(temporary_id) ~> ~AuthPending(temporary_id)


\* ---------------------------------------------------------------------------
\* Properties of a player whose health has reached 0 within a tick
\* ---------------------------------------------------------------------------

\* C38: once the health of a player has reached 0 during a tick, the
\* strikes the player still makes in that tick (the second strike of an Eat
\* whose first strike was a head-on collision included) change neither the
\* entity grid, nor the food grid, nor a score
C38_DeadPlayerChangesNothing ==
    \A i \in DOMAIN strikes :
        strikes[i].health_before = 0
            => /\ ~strikes[i].entities_changed
               /\ ~strikes[i].food_changed
               /\ strikes[i].score_after = strikes[i].score_before

\* ---------------------------------------------------------------------------
\* Properties of the scores sent to the score persister
\* ---------------------------------------------------------------------------

\* C39: the final_score of a PlayerDied event is never greater than the
\* largest score sent for that user to the score persister
C39_FinalScoreSubmitted ==
    \A i \in DOMAIN competitor_rx :
        competitor_rx[i].type = "PlayerDied"
            => \E update \in score_updates :
                    /\ update[1] = competitor_rx[i].user_id
                    /\ update[2] >= competitor_rx[i].final_score

\* ---------------------------------------------------------------------------
\* Properties of what a spectator receives
\* ---------------------------------------------------------------------------

\* What the peer of the task has rebuilt from the messages it received
Rebuilt(task) ==
    ApplyBroadcasts(EmptyMap,
        task.initial \o SelectSeq(task.received,
                                  LAMBDA m : m.type # "LeaderboardUpdate"), 1)

\* C40: a spectator observes no gap: what it has received after its initial
\* snapshot is, in order and each once, the events broadcast since the
\* snapshot was taken, starting with the first; a Receiver that has lagged
\* behind the channel has its connection closed and receives nothing more;
\* and a spectator that has received everything has rebuilt what a
\* spectator connected from the start has
C40_SpectatorSeesNoGap ==
    spectator_task # <<>> =>
        LET task == spectator_task[1] IN
        /\ task.received = SubSeq(broadcaster, task.subscribed + 1,
                                  task.subscribed + Len(task.received))
        /\ task.lagged => task.status = "closed"
        /\ (task.status = "open" /\ ~task.peer_gone /\ task.next = Len(broadcaster))
                => Rebuilt(task) = view

\* C40's case: a spectator received its snapshot and then consecutive
\* deltas, fell behind the channel and was closed for it
C40_Witness ==
    /\ ~crashed
    /\ spectator_task # <<>>
    /\ spectator_task[1].status = "closed"
    /\ spectator_task[1].lagged
    /\ ~spectator_task[1].peer_gone
    /\ Len(spectator_task[1].initial) = 1
    /\ Len(spectator_task[1].received) >= 2
    /\ spectator_task[1].received[1].type = "Delta"
    /\ spectator_task[1].received[2].type = "Delta"

=============================================================================
